---- MODULE Spec2Model ----
(***************************************************************************)
(* Model of skills/terraform-azurerm-set-diff-analyzer/scripts/            *)
(* analyze_plan.py: the value normalizer, the element keyer, the recursive *)
(* Set differ, the resource change analyzer, the aggregator and the exit   *)
(* status of main.                                                         *)
(*                                                                         *)
(* JSON values are tagged records of one fixed shape, so that values of    *)
(* different Python types can be held in one collection:                   *)
(*   t  the Python type: "null" "str" "int" "float" "bool" "list" "dict"   *)
(*   s  the characters of a str                                            *)
(*   n  an int; a bool as 0/1; a float in tenths (15 is 1.5)               *)
(*   l  the items of a list                                                *)
(*   d  the items of a dict in insertion order, each [k |-> name, v |-> x] *)
(* Python's == is PyEq, never TLA+ equality of the records: 1 == 1.0 and   *)
(* True == 1 hold in Python, and dict equality ignores insertion order.    *)
(***************************************************************************)
EXTENDS Integers, Sequences, FiniteSets, TLC

VARIABLES
    pc,                     \* position of the program / of the harness
    CONFIG,                 \* the process-wide Config singleton
    AZURERM_SET_ATTRIBUTES, \* schema loaded by main (resource type -> attrs)
    va, vb, vc,             \* a pure function under test: the values it is given
    eq,                     \* a pure function under test: what it returned
    before_list, after_list,\* analyze_set_attribute: the two sides
    key_attr, nested_attrs, \* analyze_set_attribute: the schema node
    change,                 \* analyze_set_attribute: the returned result
    raised,                 \* analyze_set_attribute: an exception escaped
    argv,                   \* main: the parsed command line
    plan_json,              \* main: the plan document
    rc_index,               \* analyze_plan: position in resource_changes
    result,                 \* analyze_plan: the AnalysisResult being built
    differ_calls,           \* per resource: calls of analyze_set_attribute
    exit_status,            \* main: status the process exited with, or -1
    stdout                  \* main: what was printed on standard output

vars == <<pc, CONFIG, AZURERM_SET_ATTRIBUTES, va, vb, vc, eq, before_list,
          after_list, key_attr, nested_attrs, change, raised, argv,
          plan_json, rc_index, result, differ_calls, exit_status, stdout>>

(***************************************************************************)
(* Bounds of the model.                                                    *)
(***************************************************************************)
MaxLen == 2         \* longest before/after collection handed to the differ
MaxResources == 2   \* longest resource_changes list of a plan

(***************************************************************************)
(* Program constants.                                                      *)
(***************************************************************************)
EXIT_NO_CHANGES == 0
EXIT_ORDER_ONLY == 0
EXIT_SET_CHANGES == 1
EXIT_RESOURCE_REPLACE == 2
EXIT_ERROR == 3

(***************************************************************************)
(* JSON / Python values.                                                   *)
(***************************************************************************)
Val(t, s, n, l, d) == [t |-> t, s |-> s, n |-> n, l |-> l, d |-> d]
None == Val("null", "", 0, <<>>, <<>>)
JStr(s) == Val("str", s, 0, <<>>, <<>>)
JInt(n) == Val("int", "", n, <<>>, <<>>)
JFloat(tenths) == Val("float", "", tenths, <<>>, <<>>)
JBool(b) == Val("bool", "", IF b THEN 1 ELSE 0, <<>>, <<>>)
JList(l) == Val("list", "", 0, l, <<>>)
JDict(d) == Val("dict", "", 0, <<>>, d)
Item(k, v) == [k |-> k, v |-> v]

Range(f) == {f[i] : i \in DOMAIN f}

\* isinstance(v, (int, float)) in Python; bool is a subclass of int
IsNum(v) == v.t \in {"int", "float", "bool"}
\* the number a numeric value denotes, in tenths
Tenths(v) == IF v.t = "float" THEN v.n ELSE 10 * v.n

\* dict operations
DictKeys(v) == {v.d[i].k : i \in DOMAIN v.d}
HasKey(v, k) == k \in DictKeys(v)
\* v[k]
DictAt(v, k) == (CHOOSE it \in Range(v.d) : it.k = k).v
\* v.get(k)
DictGet(v, k) == IF HasKey(v, k) THEN DictAt(v, k) ELSE None
\* v[k] = x on the item sequence of a dict: an existing key keeps its place
DictPut(d, k, x) ==
    IF \E i \in DOMAIN d : d[i].k = k
    THEN [i \in DOMAIN d |-> IF d[i].k = k THEN Item(k, x) ELSE d[i]]
    ELSE Append(d, Item(k, x))

\* Python's a == b
RECURSIVE PyEq(_, _)
PyEq(a, b) ==
    IF IsNum(a) /\ IsNum(b) THEN Tenths(a) = Tenths(b)
    ELSE IF a.t # b.t THEN FALSE
    ELSE IF a.t = "null" THEN TRUE
    ELSE IF a.t = "str" THEN a.s = b.s
    ELSE IF a.t = "list"
         THEN /\ Len(a.l) = Len(b.l)
              /\ \A i \in DOMAIN a.l : PyEq(a.l[i], b.l[i])
    ELSE /\ DictKeys(a) = DictKeys(b)
         /\ \A k \in DictKeys(a) : PyEq(DictAt(a, k), DictAt(b, k))

\* bool(v)
Truthy(v) ==
    CASE v.t = "null" -> FALSE
      [] v.t = "str" -> v.s # ""
      [] v.t = "list" -> Len(v.l) > 0
      [] v.t = "dict" -> Len(v.d) > 0
      [] OTHER -> v.n # 0

\* str.lower() on the strings the model uses
Lower(s) ==
    CASE s = "A" -> "a"
      [] s = "B" -> "b"
      [] s = "X" -> "x"
      [] s = "Y" -> "y"
      [] OTHER -> s

\* repr() of a float given in tenths
FloatRepr(tenths) ==
    IF tenths < 0
    THEN "-" \o ToString((0 - tenths) \div 10) \o "." \o ToString((0 - tenths) % 10)
    ELSE ToString(tenths \div 10) \o "." \o ToString(tenths % 10)

\* the field names the model uses, in sorted order (json.dumps sort_keys)
FieldOrder == <<"_key", "name", "port", "rules", "tags", "zone">>

RECURSIVE JoinStr(_, _)
JoinStr(parts, sep) ==
    IF Len(parts) = 0 THEN ""
    ELSE IF Len(parts) = 1 THEN parts[1]
    ELSE parts[1] \o sep \o JoinStr(Tail(parts), sep)

\* json.dumps(v, sort_keys=True)
RECURSIVE json_dumps(_)
json_dumps(v) ==
    CASE v.t = "null" -> "null"
      [] v.t = "str" -> "\"" \o v.s \o "\""
      [] v.t = "int" -> ToString(v.n)
      [] v.t = "float" -> FloatRepr(v.n)
      [] v.t = "bool" -> IF v.n = 1 THEN "true" ELSE "false"
      [] v.t = "list" ->
            "[" \o JoinStr([i \in DOMAIN v.l |-> json_dumps(v.l[i])], ", ") \o "]"
      [] OTHER ->
            LET ks == SelectSeq(FieldOrder, LAMBDA k : HasKey(v, k))
            IN "{" \o JoinStr([i \in DOMAIN ks |->
                        "\"" \o ks[i] \o "\": " \o json_dumps(DictAt(v, ks[i]))], ", ")
                   \o "}"

\* repr(v)
RECURSIVE PyRepr(_)
PyRepr(v) ==
    CASE v.t = "null" -> "None"
      [] v.t = "str" -> "'" \o v.s \o "'"
      [] v.t = "int" -> ToString(v.n)
      [] v.t = "float" -> FloatRepr(v.n)
      [] v.t = "bool" -> IF v.n = 1 THEN "True" ELSE "False"
      [] v.t = "list" ->
            "[" \o JoinStr([i \in DOMAIN v.l |-> PyRepr(v.l[i])], ", ") \o "]"
      [] OTHER ->
            "{" \o JoinStr([i \in DOMAIN v.d |->
                        "'" \o v.d[i].k \o "': " \o PyRepr(v.d[i].v)], ", ")
                \o "}"

\* str(v)
PyStr(v) == IF v.t = "str" THEN v.s ELSE PyRepr(v)

\* str(hash(s)) of a string: a fixed injective image (no collisions)
PyHashStr(s) == "hash(" \o s \o ")"

(***************************************************************************)
(* Value Normalizer.                                                       *)
(***************************************************************************)
\* a normalize_value that turns an empty list into the empty string
normalize_value_empty_list_to_str(val) ==
    IF (val.t = "str" /\ val.s = "") \/ val.t = "null" THEN None
    ELSE IF val.t = "list" /\ Len(val.l) = 0 THEN JStr("")
    ELSE IF val.t = "float" /\ val.n % 10 = 0 THEN JInt(val.n \div 10)
    ELSE val

normalize_value(val) ==
    IF (val.t = "str" /\ val.s = "") \/ val.t = "null" THEN None
    ELSE IF val.t = "list" /\ Len(val.l) = 0 THEN None
    ELSE IF val.t = "float" /\ val.n % 10 = 0 THEN JInt(val.n \div 10)
    ELSE val

normalize_for_comparison(val) ==
    LET v == normalize_value(val)
    IN IF CONFIG.ignore_case /\ v.t = "str" THEN JStr(Lower(v.s)) ELSE v

\* a values_equivalent that lets an absent before-value match anything
values_equivalent_absent_matches(before_val, after_val) ==
    \/ normalize_for_comparison(before_val).t = "null"
    \/ PyEq(normalize_for_comparison(before_val), normalize_for_comparison(after_val))

values_equivalent(before_val, after_val) ==
    PyEq(normalize_for_comparison(before_val), normalize_for_comparison(after_val))

(***************************************************************************)
(* Element Keyer.                                                          *)
(***************************************************************************)
\* a get_element_key whose fallback hashes str(element), fields as inserted
get_element_key_as_inserted(element, key) ==
    IF Truthy(key) /\ key.t = "str" /\ HasKey(element, key.s)
    THEN LET val == DictAt(element, key.s)
         IN IF CONFIG.ignore_case /\ val.t = "str" THEN Lower(val.s)
            ELSE PyStr(val)
    ELSE PyHashStr(PyRepr(element))

\* a get_element_key whose fallback hashes the "name" field alone
get_element_key_hashes_name(element, key) ==
    IF Truthy(key) /\ key.t = "str" /\ HasKey(element, key.s)
    THEN LET val == DictAt(element, key.s)
         IN IF CONFIG.ignore_case /\ val.t = "str" THEN Lower(val.s)
            ELSE PyStr(val)
    ELSE PyHashStr(json_dumps(DictGet(element, "name")))

\* key_attr is None or a str (the schema's "_key"); "key_attr in element"
get_element_key(element, key) ==
    IF Truthy(key) /\ key.t = "str" /\ HasKey(element, key.s)
    THEN LET val == DictAt(element, key.s)
         IN IF CONFIG.ignore_case /\ val.t = "str" THEN Lower(val.s)
            ELSE PyStr(val)
    ELSE PyHashStr(json_dumps(element))

(***************************************************************************)
(* Schema Model.                                                           *)
(***************************************************************************)
\* dict comprehension {k: v for k, v in attr_def.items() if k != "_key"}
WithoutKeyMarker(attr_def) == JDict(SelectSeq(attr_def.d, LAMBDA it : it.k # "_key"))

\* a get_attr_config that takes any value that is no object for the key field
get_attr_config_any_key(attr_def) ==
    IF attr_def.t = "null" THEN [key_attr |-> None, nested_attrs |-> JDict(<<>>)]
    ELSE IF attr_def.t = "dict"
         THEN [key_attr |-> DictGet(attr_def, "_key"),
               nested_attrs |-> WithoutKeyMarker(attr_def)]
    ELSE [key_attr |-> attr_def, nested_attrs |-> JDict(<<>>)]

get_attr_config(attr_def) ==
    IF attr_def.t = "null" THEN [key_attr |-> None, nested_attrs |-> JDict(<<>>)]
    ELSE IF attr_def.t = "str" THEN [key_attr |-> attr_def, nested_attrs |-> JDict(<<>>)]
    ELSE IF attr_def.t = "dict"
         THEN [key_attr |-> DictGet(attr_def, "_key"),
               nested_attrs |-> WithoutKeyMarker(attr_def)]
    ELSE [key_attr |-> None, nested_attrs |-> JDict(<<>>)]

(***************************************************************************)
(* Results of the Set Differ.                                              *)
(***************************************************************************)
\* the dataclass SetAttributeChange with its defaults
SetAttributeChange(attr_name, full_path, primitive) ==
    [attribute_name |-> attr_name, path |-> full_path, order_only_count |-> 0,
     added |-> <<>>, removed |-> <<>>, modified |-> <<>>, nested_changes |-> <<>>,
     is_primitive |-> primitive, primitive_added |-> <<>>, primitive_removed |-> <<>>]

\* what a call leaves behind: the returned change, the messages it passed to
\* warn() in order, and whether an exception escaped instead of a return
Outcome(c, w, r) == [change |-> c, warnings |-> w, raised |-> r]

\* the test "the result carries a finding" of the differ and of the analyzer
HasFinding(c) ==
    \/ c.order_only_count > 0
    \/ Len(c.added) > 0
    \/ Len(c.removed) > 0
    \/ Len(c.modified) > 0
    \/ Len(c.nested_changes) > 0
    \/ Len(c.primitive_added) > 0
    \/ Len(c.primitive_removed) > 0

RECURSIVE Flatten(_)
Flatten(ss) == IF Len(ss) = 0 THEN <<>> ELSE ss[1] \o Flatten(Tail(ss))

\* a sequence of calls made one after another stops at the first that raises
FirstRaised(outs) ==
    IF \E i \in DOMAIN outs : outs[i].raised
    THEN CHOOSE i \in DOMAIN outs :
            outs[i].raised /\ \A j \in DOMAIN outs : outs[j].raised => i <= j
    ELSE Len(outs) + 1
AnyRaised(outs) == \E i \in DOMAIN outs : outs[i].raised
WarningsOf(outs) ==
    LET last == IF AnyRaised(outs) THEN FirstRaised(outs) ELSE Len(outs)
    IN Flatten([i \in 1..last |-> outs[i].warnings])

(***************************************************************************)
(* compare_elements.                                                       *)
(***************************************************************************)
KeysSeq(v) == [i \in DOMAIN v.d |-> v.d[i].k]
\* set(before.keys()) | set(after.keys()), iterated in one fixed order
AllKeys(before, after) ==
    KeysSeq(before) \o SelectSeq(KeysSeq(after), LAMBDA k : ~HasKey(before, k))

\* a compare_elements that compares the plain fields by == alone
compare_elements_exact(before, after, nested) ==
    LET all_keys == AllKeys(before, after)
        nk == SelectSeq(all_keys, LAMBDA k :
                 HasKey(nested, k) /\ ~PyEq(DictGet(before, k), DictGet(after, k)))
        sk == SelectSeq(all_keys, LAMBDA k :
                 ~HasKey(nested, k) /\ ~PyEq(DictGet(before, k), DictGet(after, k)))
    IN [simple_diffs |-> [i \in DOMAIN sk |->
            Item(sk[i], [before |-> DictGet(before, sk[i]), after |-> DictGet(after, sk[i])])],
        nested_set_attrs |-> [i \in DOMAIN nk |->
            [name |-> nk[i], before |-> DictGet(before, nk[i]),
             after |-> DictGet(after, nk[i]), def |-> DictAt(nested, nk[i])]]]

compare_elements(before, after, nested) ==
    LET all_keys == AllKeys(before, after)
        nk == SelectSeq(all_keys, LAMBDA k :
                 HasKey(nested, k) /\ ~PyEq(DictGet(before, k), DictGet(after, k)))
        sk == SelectSeq(all_keys, LAMBDA k :
                 ~HasKey(nested, k) /\ ~values_equivalent(DictGet(before, k), DictGet(after, k)))
    IN [simple_diffs |-> [i \in DOMAIN sk |->
            Item(sk[i], [before |-> DictGet(before, sk[i]), after |-> DictGet(after, sk[i])])],
        nested_set_attrs |-> [i \in DOMAIN nk |->
            [name |-> nk[i], before |-> DictGet(before, nk[i]),
             after |-> DictGet(after, nk[i]), def |-> DictAt(nested, nk[i])]]]

(***************************************************************************)
(* analyze_primitive_set.                                                  *)
(***************************************************************************)
PyIn(x, s) == \E i \in DOMAIN s : PyEq(s[i], x)
\* set(l): the first of each class of Python-equal items, in one fixed order
RECURSIVE PySet(_)
PySet(l) ==
    IF Len(l) = 0 THEN <<>>
    ELSE LET p == PySet(SubSeq(l, 1, Len(l) - 1))
         IN IF PyIn(l[Len(l)], p) THEN p ELSE Append(p, l[Len(l)])
\* a - b and a & b on sets
PySetMinus(a, b) == SelectSeq(a, LAMBDA v : ~PyIn(v, b))
PySetAnd(a, b) == SelectSeq(a, LAMBDA v : PyIn(v, b))
\* {v.lower() if isinstance(v, str) else v for v in s}
LowerAll(s) == PySet([i \in DOMAIN s |-> IF s[i].t = "str" THEN JStr(Lower(s[i].s)) ELSE s[i]])
\* list and dict items cannot be hashed: set(l) raises TypeError
Unhashable(l) == \E i \in DOMAIN l : l[i].t \in {"list", "dict"}

\* an analyze_primitive_set that counts the common items whatever was added
analyze_primitive_set_counts_common(bl, al, attr_name, path) ==
    LET full_path == IF path # "" THEN path \o "." \o attr_name ELSE attr_name
        c0 == SetAttributeChange(attr_name, full_path, TRUE)
        before_set == PySet(bl)
        after_set == PySet(al)
        before_normalized == IF CONFIG.ignore_case THEN LowerAll(before_set) ELSE before_set
        after_normalized == IF CONFIG.ignore_case THEN LowerAll(after_set) ELSE after_set
        removed == PySetMinus(before_normalized, after_normalized)
        added == PySetMinus(after_normalized, before_normalized)
        common == PySetAnd(before_normalized, after_normalized)
    IN IF Unhashable(bl) \/ Unhashable(al) THEN Outcome(c0, <<>>, TRUE)
       ELSE Outcome([c0 EXCEPT !.primitive_removed = removed,
                               !.primitive_added = added,
                               !.order_only_count = Len(common)],
                    <<>>, FALSE)

analyze_primitive_set(bl, al, attr_name, path) ==
    LET full_path == IF path # "" THEN path \o "." \o attr_name ELSE attr_name
        c0 == SetAttributeChange(attr_name, full_path, TRUE)
        before_set == PySet(bl)
        after_set == PySet(al)
        before_normalized == IF CONFIG.ignore_case THEN LowerAll(before_set) ELSE before_set
        after_normalized == IF CONFIG.ignore_case THEN LowerAll(after_set) ELSE after_set
        removed == PySetMinus(before_normalized, after_normalized)
        added == PySetMinus(after_normalized, before_normalized)
        common == PySetAnd(before_normalized, after_normalized)
    IN IF Unhashable(bl) \/ Unhashable(al) THEN Outcome(c0, <<>>, TRUE)
       ELSE Outcome([c0 EXCEPT !.primitive_removed = removed,
                               !.primitive_added = added,
                               !.order_only_count =
                                    IF Len(common) > 0 /\ Len(removed) = 0 /\ Len(added) = 0
                                    THEN Len(common) ELSE 0],
                    <<>>, FALSE)

(***************************************************************************)
(* analyze_set_attribute (the Set Differ).                                 *)
(***************************************************************************)
RECURSIVE analyze_set_attribute(_, _, _, _, _, _)

\* a coercion that makes a one-item list of every non-list value but null
Coerce_wraps_falsy(v) ==
    IF v.t = "null" THEN <<>> ELSE IF v.t = "list" THEN v.l ELSE <<v>>

\* "x = x or []", then a non-list value becomes a one-item list
Coerce(v) == IF ~Truthy(v) THEN <<>> ELSE IF v.t = "list" THEN v.l ELSE <<v>>

\* any(not isinstance(e, dict) for e in l if e is not None)
HasPrimitive(l) == \E i \in DOMAIN l : l[i].t \notin {"dict", "null"}

\* the loop that fills before_map / after_map: the items of the map in
\* insertion order and the warnings of the repeated keys
\* a map loop that keeps the first element seen for a key
RECURSIVE BuildMap_keeps_first(_, _, _, _)
BuildMap_keeps_first(l, key, side, full_path) ==
    IF Len(l) = 0 THEN [map |-> <<>>, warnings |-> <<>>]
    ELSE LET p == BuildMap_keeps_first(SubSeq(l, 1, Len(l) - 1), key, side, full_path)
             e == l[Len(l)]
         IN IF e.t # "dict" THEN p
            ELSE LET k == get_element_key(e, key)
                 IN IF \E i \in DOMAIN p.map : p.map[i].k = k
                    THEN [map |-> p.map,
                          warnings |-> Append(p.warnings, "Duplicate key '" \o k \o "' in "
                                        \o side \o " state for " \o full_path)]
                    ELSE [map |-> Append(p.map, Item(k, e)), warnings |-> p.warnings]

\* a map loop that overrides a repeated key without a warning
RECURSIVE BuildMap_silent(_, _, _, _)
BuildMap_silent(l, key, side, full_path) ==
    IF Len(l) = 0 THEN [map |-> <<>>, warnings |-> <<>>]
    ELSE LET p == BuildMap_silent(SubSeq(l, 1, Len(l) - 1), key, side, full_path)
             e == l[Len(l)]
         IN IF e.t # "dict" THEN p
            ELSE [map |-> DictPut(p.map, get_element_key(e, key), e),
                  warnings |-> p.warnings]

RECURSIVE BuildMap(_, _, _, _)
BuildMap(l, key, side, full_path) ==
    IF Len(l) = 0 THEN [map |-> <<>>, warnings |-> <<>>]
    ELSE LET p == BuildMap(SubSeq(l, 1, Len(l) - 1), key, side, full_path)
             e == l[Len(l)]
         IN IF e.t # "dict" THEN p
            ELSE LET k == get_element_key(e, key)
                 IN [map |-> DictPut(p.map, k, e),
                     warnings |->
                        IF \E i \in DOMAIN p.map : p.map[i].k = k
                        THEN Append(p.warnings, "Duplicate key '" \o k \o "' in "
                                        \o side \o " state for " \o full_path)
                        ELSE p.warnings]

\* display_key = key if key_attr else "(element)"
DisplayKey(k, key) == IF Truthy(key) THEN k ELSE "(element)"

\* the recursive calls for the nested Set attributes of one matched pair
NestedOutcomes(nested_set_list, full_path) ==
    [i \in DOMAIN nested_set_list |->
        LET n == nested_set_list[i]
            cfg == get_attr_config(n.def)
        IN analyze_set_attribute(n.before, n.after, cfg.key_attr, n.name,
                                 cfg.nested_attrs, full_path)]

PairResult(o, m, n, w, r) ==
    [order_only |-> o, modified |-> m, nested_changes |-> n, warnings |-> w, raised |-> r]

\* a keeping of nested results that attaches their own nested results to the
\* parent as well
KeptChanges_lifts_grandchildren(subs) ==
    LET kept == SelectSeq(subs, LAMBDA out : HasFinding(out.change))
    IN [i \in DOMAIN kept |-> kept[i].change]
       \o Flatten([i \in DOMAIN kept |-> kept[i].change.nested_changes])

\* the nested results that carry a finding (the test before nested_changes.append)
KeptChanges(subs) ==
    LET kept == SelectSeq(subs, LAMBDA out : HasFinding(out.change))
    IN [i \in DOMAIN kept |-> kept[i].change]

\* a loop tail that counts a pair as order-only also when it is modified
ClassifyPair_counts_modified(k, key, cmp, subs) ==
    IF AnyRaised(subs) THEN PairResult(0, <<>>, <<>>, WarningsOf(subs), TRUE)
    ELSE PairResult(
            IF Len(cmp.nested_set_attrs) = 0 THEN 1 ELSE 0,
            IF Len(cmp.simple_diffs) > 0
            THEN <<[key |-> DisplayKey(k, key), diffs |-> cmp.simple_diffs]>>
            ELSE <<>>,
            KeptChanges(subs), WarningsOf(subs), FALSE)

\* a loop tail that reports a nested finding as a modified entry as well
ClassifyPair_nested_is_modified(k, key, cmp, subs) ==
    IF AnyRaised(subs) THEN PairResult(0, <<>>, <<>>, WarningsOf(subs), TRUE)
    ELSE PairResult(
            IF Len(cmp.simple_diffs) = 0 /\ Len(cmp.nested_set_attrs) = 0 THEN 1 ELSE 0,
            IF Len(cmp.simple_diffs) > 0 \/ Len(KeptChanges(subs)) > 0
            THEN <<[key |-> DisplayKey(k, key), diffs |-> cmp.simple_diffs]>>
            ELSE <<>>,
            KeptChanges(subs), WarningsOf(subs), FALSE)

\* the tail of the loop body for a pair that is not exactly equal: the nested
\* findings are kept, then "if simple_diffs ... elif not nested_set_list"
ClassifyPair(k, key, cmp, subs) ==
    IF AnyRaised(subs) THEN PairResult(0, <<>>, <<>>, WarningsOf(subs), TRUE)
    ELSE PairResult(
            IF Len(cmp.simple_diffs) = 0 /\ Len(cmp.nested_set_attrs) = 0 THEN 1 ELSE 0,
            IF Len(cmp.simple_diffs) > 0
            THEN <<[key |-> DisplayKey(k, key), diffs |-> cmp.simple_diffs]>>
            ELSE <<>>,
            KeptChanges(subs), WarningsOf(subs), FALSE)

ChangedPair(k, key, cmp, full_path) ==
    ClassifyPair(k, key, cmp, NestedOutcomes(cmp.nested_set_attrs, full_path))

\* the body of the loop "for key in before_keys & after_keys"
MatchedPair(k, before_elem, after_elem, key, nested, full_path) ==
    IF PyEq(before_elem, after_elem) THEN PairResult(1, <<>>, <<>>, <<>>, FALSE)
    ELSE ChangedPair(k, key, compare_elements(before_elem, after_elem, nested), full_path)

RECURSIVE SumSeq(_)
SumSeq(ns) == IF Len(ns) = 0 THEN 0 ELSE ns[1] + SumSeq(Tail(ns))

\* a difference of key sets that pairs the keys by their position in the maps
KeysOnlyIn_by_position(m1, m2) ==
    LET ks == KeysSeq(JDict(m1))
        idx == {i \in DOMAIN ks : i > Len(m2) \/ m2[i].k # ks[i]}
    IN SelectSeq(ks, LAMBDA k : \E i \in idx : ks[i] = k)

\* before_keys - after_keys, in the order of the first map
KeysOnlyIn(m1, m2) == SelectSeq(KeysSeq(JDict(m1)), LAMBDA k : ~HasKey(JDict(m2), k))

\* an intersection of key sets that pairs the keys by their position in the maps
KeysInBoth_by_position(m1, m2) ==
    LET ks == KeysSeq(JDict(m1))
        idx == {i \in DOMAIN ks : i <= Len(m2) /\ m2[i].k = ks[i]}
    IN SelectSeq(ks, LAMBDA k : \E i \in idx : ks[i] = k)

\* before_keys & after_keys
KeysInBoth(m1, m2) == SelectSeq(KeysSeq(JDict(m1)), LAMBDA k : HasKey(JDict(m2), k))

\* the result assembled from the two maps and the outcomes of the matched pairs
Assemble(c0, key, bm, am, pairs) ==
    IF AnyRaised(pairs)
    THEN Outcome(c0, bm.warnings \o am.warnings \o WarningsOf(pairs), TRUE)
    ELSE Outcome(
            [c0 EXCEPT
               !.removed = [i \in DOMAIN KeysOnlyIn(bm.map, am.map) |->
                               DisplayKey(KeysOnlyIn(bm.map, am.map)[i], key)],
               !.added = [i \in DOMAIN KeysOnlyIn(am.map, bm.map) |->
                               DisplayKey(KeysOnlyIn(am.map, bm.map)[i], key)],
               !.order_only_count = SumSeq([i \in DOMAIN pairs |-> pairs[i].order_only]),
               !.modified = Flatten([i \in DOMAIN pairs |-> pairs[i].modified]),
               !.nested_changes = Flatten([i \in DOMAIN pairs |-> pairs[i].nested_changes])],
            bm.warnings \o am.warnings \o WarningsOf(pairs), FALSE)

\* the composite branch: the maps are built, then keys are compared
DiffMaps(c0, key, nested, full_path, bm, am) ==
    Assemble(c0, key, bm, am,
             [i \in DOMAIN KeysInBoth(bm.map, am.map) |->
                MatchedPair(KeysInBoth(bm.map, am.map)[i],
                            DictAt(JDict(bm.map), KeysInBoth(bm.map, am.map)[i]),
                            DictAt(JDict(am.map), KeysInBoth(bm.map, am.map)[i]),
                            key, nested, full_path)])

FullPath(path, attr_name) == IF path # "" THEN path \o "." \o attr_name ELSE attr_name

analyze_set_attribute(before_val, after_val, key, attr_name, nested_in, path) ==
    IF HasPrimitive(Coerce(before_val)) \/ HasPrimitive(Coerce(after_val))
    THEN analyze_primitive_set(Coerce(before_val), Coerce(after_val), attr_name, path)
    ELSE DiffMaps(SetAttributeChange(attr_name, FullPath(path, attr_name), FALSE),
                  key,
                  IF Truthy(nested_in) THEN nested_in ELSE JDict(<<>>),
                  FullPath(path, attr_name),
                  BuildMap(Coerce(before_val), key, "before", FullPath(path, attr_name)),
                  BuildMap(Coerce(after_val), key, "after", FullPath(path, attr_name)))

(***************************************************************************)
(* analyze_resource_change (the Resource Change Analyzer).                 *)
(* A resource change is the record                                         *)
(*   [type, address, actions, before, after, before_sensitive,             *)
(*    after_sensitive]                                                     *)
(* of the plan entry's "type", "address" and "change" members; actions is  *)
(* a sequence of strings, the others are JSON values.  The command line    *)
(* of the model gives no --include / --exclude filter.                     *)
(***************************************************************************)
\* resource_type.startswith("azurerm_") on the resource types the model uses
startswith_azurerm(resource_type) == resource_type \in {"azurerm_nsg", "azurerm_gw"}
\* key.startswith("_") on the attribute names the model uses
startswith_underscore(k) == k \in {"_key", "_id"}

\* x or {}
OrEmptyDict(v) == IF Truthy(v) THEN v ELSE JDict(<<>>)

\* the dataclass ResourceChange as analyze_resource_change first builds it
ResourceChange(rc) ==
    [address |-> rc.address, resource_type |-> rc.type, actions |-> rc.actions,
     set_changes |-> <<>>, other_changes |-> <<>>,
     is_replace |-> ("delete" \in Range(rc.actions) /\ "create" \in Range(rc.actions)),
     is_create |-> (rc.actions = <<"create">>),
     is_delete |-> (rc.actions = <<"delete">>)]

\* the warning about a sensitive attribute (the test inside the loop)
SensitiveWarning(rc, attr_name) ==
    LET before_sensitive == OrEmptyDict(rc.before_sensitive)
        after_sensitive == OrEmptyDict(rc.after_sensitive)
    IN IF /\ HasKey(before_sensitive, attr_name) \/ HasKey(after_sensitive, attr_name)
          /\ \/ Truthy(DictGet(before_sensitive, attr_name))
             \/ Truthy(DictGet(after_sensitive, attr_name))
       THEN <<"Attribute '" \o attr_name \o "' in " \o rc.address
              \o " contains sensitive values (comparison may be incomplete)">>
       ELSE <<>>

\* the three "continue" tests of the loop
SkipAttr(before_val, after_val) ==
    \/ before_val.t = "null" /\ after_val.t = "null"
    \/ PyEq(before_val, after_val)
    \/ before_val.t # "list" /\ after_val.t # "list"

\* a loop turn that appends the result of the Set Differ whatever it carries
StepResult_keeps_empty(w, skip, out) ==
    IF skip
    THEN [warnings |-> w, raised |-> FALSE, called |-> 0, set_changes |-> <<>>]
    ELSE [warnings |-> w \o out.warnings, raised |-> out.raised, called |-> 1,
          set_changes |-> IF ~out.raised THEN <<out.change>> ELSE <<>>]

StepResult(w, skip, out) ==
    IF skip
    THEN [warnings |-> w, raised |-> FALSE, called |-> 0, set_changes |-> <<>>]
    ELSE [warnings |-> w \o out.warnings, raised |-> out.raised, called |-> 1,
          set_changes |-> IF ~out.raised /\ HasFinding(out.change)
                          THEN <<out.change>> ELSE <<>>]

\* one turn of the loop over set_attrs.items(): the warning it emits, whether
\* it calls the Set Differ, and the result it appends to set_changes
AttrStep(rc, attr_name, attr_def) ==
    LET before_val == DictGet(OrEmptyDict(rc.before), attr_name)
        after_val == DictGet(OrEmptyDict(rc.after), attr_name)
    IN StepResult(SensitiveWarning(rc, attr_name),
                  SkipAttr(before_val, after_val),
                  analyze_set_attribute(before_val, after_val,
                                        get_attr_config(attr_def).key_attr, attr_name,
                                        get_attr_config(attr_def).nested_attrs, ""))

\* AZURERM_SET_ATTRIBUTES.get(resource_type, {})
SetAttrsOf(resource_type) ==
    IF HasKey(AZURERM_SET_ATTRIBUTES, resource_type)
    THEN DictAt(AZURERM_SET_ATTRIBUTES, resource_type)
    ELSE JDict(<<>>)

\* the loop "Find other (non-Set) changes"
OtherChanges(rc, analyzed_attrs) ==
    LET before == OrEmptyDict(rc.before)
        after == OrEmptyDict(rc.after)
    IN SelectSeq(AllKeys(before, after), LAMBDA k :
            /\ k \notin analyzed_attrs
            /\ ~startswith_underscore(k)
            /\ ~PyEq(DictGet(before, k), DictGet(after, k)))

Finding(found, res, w, r, n) ==
    [found |-> found, res |-> res, warnings |-> w, raised |-> r, calls |-> n]

\* the finding of an update or replacement, from the turns of the loop
Analyzed(rc, steps) ==
    LET done == IF AnyRaised(steps) THEN FirstRaised(steps) ELSE Len(steps)
        set_changes == Flatten([i \in 1..done |-> steps[i].set_changes])
        analyzed_attrs == {set_changes[i].attribute_name : i \in DOMAIN set_changes}
    IN Finding(TRUE,
               [ResourceChange(rc) EXCEPT !.set_changes = set_changes,
                                          !.other_changes = OtherChanges(rc, analyzed_attrs)],
               WarningsOf(steps), AnyRaised(steps),
               SumSeq([i \in 1..done |-> steps[i].called]))

\* an analyze_resource_change that lists the attributes of a created or
\* deleted resource as other changes
analyze_resource_change_lists_created(rc) ==
    IF rc.actions = <<"no-op">> \/ ~startswith_azurerm(rc.type)
    THEN Finding(FALSE, ResourceChange(rc), <<>>, FALSE, 0)
    ELSE IF ResourceChange(rc).is_create \/ ResourceChange(rc).is_delete
    THEN Finding(TRUE, [ResourceChange(rc) EXCEPT !.other_changes = OtherChanges(rc, {})],
                 <<>>, FALSE, 0)
    ELSE Analyzed(rc, [i \in DOMAIN SetAttrsOf(rc.type).d |->
                          AttrStep(rc, SetAttrsOf(rc.type).d[i].k, SetAttrsOf(rc.type).d[i].v)])

\* an analyze_resource_change without the test of the resource type
analyze_resource_change_any_type(rc) ==
    IF rc.actions = <<"no-op">>
    THEN Finding(FALSE, ResourceChange(rc), <<>>, FALSE, 0)
    ELSE IF ResourceChange(rc).is_create \/ ResourceChange(rc).is_delete
    THEN Finding(TRUE, ResourceChange(rc), <<>>, FALSE, 0)
    ELSE Analyzed(rc, [i \in DOMAIN SetAttrsOf(rc.type).d |->
                          AttrStep(rc, SetAttrsOf(rc.type).d[i].k, SetAttrsOf(rc.type).d[i].v)])

\* an analyze_resource_change that skips the Set analysis of a replacement too
analyze_resource_change_skips_replace(rc) ==
    IF rc.actions = <<"no-op">> \/ ~startswith_azurerm(rc.type)
    THEN Finding(FALSE, ResourceChange(rc), <<>>, FALSE, 0)
    ELSE IF \/ ResourceChange(rc).is_create \/ ResourceChange(rc).is_delete
            \/ ResourceChange(rc).is_replace
    THEN Finding(TRUE, ResourceChange(rc), <<>>, FALSE, 0)
    ELSE Analyzed(rc, [i \in DOMAIN SetAttrsOf(rc.type).d |->
                          AttrStep(rc, SetAttrsOf(rc.type).d[i].k, SetAttrsOf(rc.type).d[i].v)])

analyze_resource_change(rc) ==
    IF rc.actions = <<"no-op">> \/ ~startswith_azurerm(rc.type)
    THEN Finding(FALSE, ResourceChange(rc), <<>>, FALSE, 0)
    ELSE IF ResourceChange(rc).is_create \/ ResourceChange(rc).is_delete
    THEN Finding(TRUE, ResourceChange(rc), <<>>, FALSE, 0)
    ELSE Analyzed(rc, [i \in DOMAIN SetAttrsOf(rc.type).d |->
                          AttrStep(rc, SetAttrsOf(rc.type).d[i].k, SetAttrsOf(rc.type).d[i].v)])

(***************************************************************************)
(* collect_all_changes (the Aggregator's walk).                            *)
(***************************************************************************)
has_actual_change(c) ==
    \/ Len(c.added) > 0
    \/ Len(c.removed) > 0
    \/ Len(c.modified) > 0
    \/ Len(c.primitive_added) > 0
    \/ Len(c.primitive_removed) > 0

\* the two lists of one node and of the walks of its children
Collected(set_change, display_name, subs) ==
    [order_only |->
        (IF set_change.order_only_count > 0 /\ ~has_actual_change(set_change)
         THEN <<[name |-> display_name, change |-> set_change]>> ELSE <<>>)
        \o Flatten([i \in DOMAIN subs |-> subs[i].order_only]),
     actual |->
        (IF has_actual_change(set_change)
         THEN <<[name |-> display_name, change |-> set_change]>> ELSE <<>>)
        \o Flatten([i \in DOMAIN subs |-> subs[i].actual])]

\* a collect_all_changes that stops at a node without a finding of its own
RECURSIVE collect_all_changes_stops(_, _)
collect_all_changes_stops(set_change, prefix) ==
    IF set_change.order_only_count = 0 /\ ~has_actual_change(set_change)
    THEN [order_only |-> <<>>, actual |-> <<>>]
    ELSE Collected(set_change, prefix \o set_change.attribute_name,
                   [i \in DOMAIN set_change.nested_changes |->
                      collect_all_changes_stops(set_change.nested_changes[i],
                                                prefix \o set_change.attribute_name \o ".")])

RECURSIVE collect_all_changes(_, _)
collect_all_changes(set_change, prefix) ==
    Collected(set_change, prefix \o set_change.attribute_name,
              [i \in DOMAIN set_change.nested_changes |->
                 collect_all_changes(set_change.nested_changes[i],
                                     prefix \o set_change.attribute_name \o ".")])

(***************************************************************************)
(* analyze_plan, determine_exit_code.                                      *)
(***************************************************************************)
\* the dataclass AnalysisResult with its defaults
AnalysisResult ==
    [resources |-> <<>>, order_only_count |-> 0, actual_set_changes_count |-> 0,
     replace_count |-> 0, create_count |-> 0, delete_count |-> 0,
     other_changes_count |-> 0, warnings |-> <<>>]

\* a Counted that stops counting creates once a replacement was counted
Counted_no_create_after_replace(r, res, walks) ==
    [r EXCEPT
       !.resources = Append(@, res),
       !.replace_count = IF res.is_replace THEN @ + 1 ELSE @,
       !.create_count = IF ~res.is_replace /\ res.is_create /\ r.replace_count = 0
                        THEN @ + 1 ELSE @,
       !.delete_count = IF ~res.is_replace /\ ~res.is_create /\ res.is_delete
                        THEN @ + 1 ELSE @,
       !.other_changes_count = @ + Len(res.other_changes),
       !.order_only_count = @ + SumSeq([i \in DOMAIN walks |-> Len(walks[i].order_only)]),
       !.actual_set_changes_count = @ + SumSeq([i \in DOMAIN walks |-> Len(walks[i].actual)])]

\* the statistics of one finding, given the walks of its set_changes
Counted(r, res, walks) ==
    [r EXCEPT
       !.resources = Append(@, res),
       !.replace_count = IF res.is_replace THEN @ + 1 ELSE @,
       !.create_count = IF ~res.is_replace /\ res.is_create THEN @ + 1 ELSE @,
       !.delete_count = IF ~res.is_replace /\ ~res.is_create /\ res.is_delete
                        THEN @ + 1 ELSE @,
       !.other_changes_count = @ + Len(res.other_changes),
       !.order_only_count = @ + SumSeq([i \in DOMAIN walks |-> Len(walks[i].order_only)]),
       !.actual_set_changes_count = @ + SumSeq([i \in DOMAIN walks |-> Len(walks[i].actual)])]

\* the body of "if res:" in analyze_plan
CountResource(r, res) ==
    Counted(r, res, [i \in DOMAIN res.set_changes |->
                        collect_all_changes(res.set_changes[i], "")])

\* a determine_exit_code that takes a warning for a change
determine_exit_code_counts_warnings(r) ==
    IF r.replace_count > 0 THEN EXIT_RESOURCE_REPLACE
    ELSE IF \/ r.actual_set_changes_count > 0 \/ r.create_count > 0 \/ r.delete_count > 0
            \/ Len(r.warnings) > 0
    THEN EXIT_SET_CHANGES
    ELSE EXIT_NO_CHANGES

\* a determine_exit_code that tests the set changes before the replacements
determine_exit_code_set_first(r) ==
    IF r.actual_set_changes_count > 0 \/ r.create_count > 0 \/ r.delete_count > 0
    THEN EXIT_SET_CHANGES
    ELSE IF r.replace_count > 0 THEN EXIT_RESOURCE_REPLACE
    ELSE EXIT_NO_CHANGES

determine_exit_code(r) ==
    IF r.replace_count > 0 THEN EXIT_RESOURCE_REPLACE
    ELSE IF r.actual_set_changes_count > 0 \/ r.create_count > 0 \/ r.delete_count > 0
    THEN EXIT_SET_CHANGES
    ELSE EXIT_NO_CHANGES

(***************************************************************************)
(* The state after the module is loaded.                                   *)
(***************************************************************************)
\* class Config as declared; CONFIG = Config()
Config == [ignore_case |-> FALSE, quiet |-> FALSE, verbose |-> FALSE, warnings |-> <<>>]

NoArgv == [exit_code |-> FALSE, ignore_case |-> FALSE, plan_ok |-> TRUE,
           plan_fault |-> "", attributes_ok |-> TRUE, attributes_fault |-> "",
           attributes |-> JDict(<<>>)]
NoEq == [aa |-> FALSE, ab |-> FALSE, ba |-> FALSE, bc |-> FALSE, ac |-> FALSE]

equivVars == <<va, vb, vc, eq>>
differVars == <<before_list, after_list, key_attr, nested_attrs, change, raised>>
mainVars == <<argv, plan_json, rc_index, result, differ_calls, exit_status, stdout>>

SeqsUpTo(S, n) == UNION {[1..k -> S] : k \in 0..n}

(***************************************************************************)
(* values_equivalent applied to three values.                              *)
(***************************************************************************)
EquivValues ==
    {None, JStr(""), JStr("a"), JStr("A"), JStr("1"),
     JInt(0), JInt(1), JFloat(10), JFloat(15), JBool(TRUE), JBool(FALSE),
     JList(<<>>), JList(<<JInt(1)>>), JList(<<JFloat(10)>>), JList(<<JStr("A")>>),
     JDict(<<>>), JDict(<<Item("port", JInt(1))>>), JDict(<<Item("port", JFloat(10))>>)}

InitEquiv ==
    /\ pc = "values"
    /\ CONFIG \in {[Config EXCEPT !.ignore_case = ic] : ic \in BOOLEAN}
    /\ AZURERM_SET_ATTRIBUTES = JDict(<<>>)
    /\ va \in EquivValues /\ vb \in EquivValues /\ vc \in EquivValues
    /\ eq = NoEq
    /\ before_list = None /\ after_list = None
    /\ key_attr = None /\ nested_attrs = JDict(<<>>)
    /\ change = SetAttributeChange("", "", FALSE) /\ raised = FALSE
    /\ argv = NoArgv /\ plan_json = None
    /\ rc_index = 0 /\ result = AnalysisResult /\ differ_calls = 0
    /\ exit_status = -1 /\ stdout = <<>>

CompareValues ==
    /\ pc = "values"
    /\ eq' = [aa |-> values_equivalent(va, va),
              ab |-> values_equivalent(va, vb),
              ba |-> values_equivalent(vb, va),
              bc |-> values_equivalent(vb, vc),
              ac |-> values_equivalent(va, vc)]
    /\ pc' = "compared"
    /\ UNCHANGED <<CONFIG, AZURERM_SET_ATTRIBUTES, va, vb, vc, differVars, mainVars>>

NextEquiv == CompareValues
SpecEquiv == InitEquiv /\ [][NextEquiv]_vars

(***************************************************************************)
(* analyze_set_attribute applied to one attribute.                         *)
(***************************************************************************)
AnalyzeSetAttribute ==
    /\ pc = "differ"
    /\ \E out \in {analyze_set_attribute(before_list, after_list, key_attr, "rule",
                                         nested_attrs, "")} :
          /\ change' = out.change
          /\ raised' = out.raised
          /\ CONFIG' = [CONFIG EXCEPT !.warnings = @ \o out.warnings]
    /\ pc' = "differed"
    /\ UNCHANGED <<AZURERM_SET_ATTRIBUTES, before_list, after_list, key_attr,
                   nested_attrs, equivVars, mainVars>>

NextDiffer == AnalyzeSetAttribute

\* composite elements keyed by "name", with the nested Set attribute "rules"
Elem(name, port) == JDict(<<Item("name", JStr(name)), Item("port", JInt(port))>>)
ElemRules(name, port, rules) ==
    JDict(<<Item("name", JStr(name)), Item("port", JInt(port)), Item("rules", rules)>>)
Elems ==
    {Elem("a", 80), Elem("b", 81), Elem("a", 443),
     ElemRules("a", 80, JList(<<JStr("x"), JStr("y")>>)),
     ElemRules("a", 80, JList(<<JStr("y"), JStr("x")>>)),
     ElemRules("a", 80, JList(<<>>))}

InitDiffer ==
    /\ pc = "differ"
    /\ CONFIG = Config
    /\ AZURERM_SET_ATTRIBUTES = JDict(<<>>)
    /\ before_list \in {JList(l) : l \in SeqsUpTo(Elems, MaxLen)}
    /\ after_list \in {JList(l) : l \in SeqsUpTo(Elems, MaxLen)}
    /\ key_attr \in {JStr("name"), None}
    /\ nested_attrs = JDict(<<Item("rules", None)>>)
    /\ change = SetAttributeChange("", "", FALSE) /\ raised = FALSE
    /\ va = None /\ vb = None /\ vc = None /\ eq = NoEq
    /\ argv = NoArgv /\ plan_json = None
    /\ rc_index = 0 /\ result = AnalysisResult /\ differ_calls = 0
    /\ exit_status = -1 /\ stdout = <<>>

SpecDiffer == InitDiffer /\ [][NextDiffer]_vars

\* primitive elements
Prims == {JStr("x"), JStr("y"), JStr("z"), JStr("X"), JInt(1), JFloat(10)}

InitPrimitive ==
    /\ pc = "differ"
    /\ CONFIG \in {[Config EXCEPT !.ignore_case = ic] : ic \in BOOLEAN}
    /\ AZURERM_SET_ATTRIBUTES = JDict(<<>>)
    /\ before_list \in {JList(l) : l \in SeqsUpTo(Prims, MaxLen)}
    /\ after_list \in {JList(l) : l \in SeqsUpTo(Prims, MaxLen)}
    /\ key_attr = None
    /\ nested_attrs = JDict(<<>>)
    /\ change = SetAttributeChange("", "", FALSE) /\ raised = FALSE
    /\ va = None /\ vb = None /\ vc = None /\ eq = NoEq
    /\ argv = NoArgv /\ plan_json = None
    /\ rc_index = 0 /\ result = AnalysisResult /\ differ_calls = 0
    /\ exit_status = -1 /\ stdout = <<>>

SpecPrimitive == InitPrimitive /\ [][NextDiffer]_vars

(***************************************************************************)
(* main: configure, load the schema, read the plan, analyze_plan (one      *)
(* action per turn of its loop over resource_changes), exit.               *)
(* argv is the parsed command line: exit_code and ignore_case are the      *)
(* flags, plan_ok tells whether the plan file was read and parsed to an    *)
(* object, attributes_ok the same of the attributes file, and attributes   *)
(* is the document of the attributes file.  When a file is not ok, its     *)
(* fault names what reading it does: "FileNotFoundError" (open finds no    *)
(* file), "JSONDecodeError" (json.load rejects the text), "OSError" (open  *)
(* fails otherwise: no permission, a directory), "AttributeError" (the     *)
(* text is JSON but no object, so .get fails).  plan_json is the record    *)
(* [resource_changes |-> the list of resource changes].  stdout lists what *)
(* main printed: "empty" for the report of an empty plan, "report" for the *)
(* formatted result.                                                       *)
(***************************************************************************)
\* data.get("resources", {})
load_set_attributes(doc) ==
    IF HasKey(doc, "resources") THEN DictAt(doc, "resources") ELSE JDict(<<>>)

\* what ends a read that failed: the handlers of main and load_set_attributes
\* exit with EXIT_ERROR; an exception no handler names ends the process with
\* a traceback on standard error and status 1
UncaughtStatus == 1

\* load_set_attributes(args.attributes): status -1 when main goes on
LoadAttributes(args) ==
    IF args.attributes_ok
    THEN [status |-> -1, attrs |-> load_set_attributes(args.attributes), warnings |-> <<>>]
    ELSE IF args.attributes_fault = "FileNotFoundError"
    THEN [status |-> -1, attrs |-> JDict(<<>>),
          warnings |-> <<"Attributes file not found">>]
    ELSE IF args.attributes_fault = "JSONDecodeError"
    THEN [status |-> EXIT_ERROR, attrs |-> AZURERM_SET_ATTRIBUTES, warnings |-> <<>>]
    ELSE [status |-> UncaughtStatus, attrs |-> AZURERM_SET_ATTRIBUTES, warnings |-> <<>>]

\* "Read plan input" and plan_json.get: status -1 when main goes on
ReadPlan(args) ==
    IF args.plan_ok THEN -1
    ELSE IF args.plan_fault \in {"FileNotFoundError", "JSONDecodeError"} THEN EXIT_ERROR
    ELSE UncaughtStatus

MainLoad ==
    /\ pc = "start"
    /\ \E loaded \in {LoadAttributes(argv)}, read \in {ReadPlan(argv)} :
          /\ CONFIG' = [ignore_case |-> argv.ignore_case, quiet |-> FALSE,
                        verbose |-> FALSE, warnings |-> loaded.warnings]
          /\ AZURERM_SET_ATTRIBUTES' = loaded.attrs
          /\ IF loaded.status # -1
             THEN /\ exit_status' = loaded.status
                  /\ pc' = "exited"
                  /\ UNCHANGED <<rc_index, result, stdout>>
             ELSE IF read # -1
             THEN /\ exit_status' = read
                  /\ pc' = "exited"
                  /\ UNCHANGED <<rc_index, result, stdout>>
             ELSE IF Len(plan_json.resource_changes) = 0
             THEN /\ exit_status' = EXIT_NO_CHANGES
                  /\ stdout' = Append(stdout, "empty")
                  /\ pc' = "exited"
                  /\ UNCHANGED <<rc_index, result>>
             ELSE /\ result' = AnalysisResult
                  /\ rc_index' = 1
                  /\ pc' = "analyze"
                  /\ UNCHANGED <<exit_status, stdout>>
    /\ UNCHANGED <<argv, plan_json, differ_calls, equivVars, differVars>>

\* one turn of "for rc in resource_changes"; an exception that escapes
\* analyze_resource_change ends the process with a traceback (status 1)
AnalyzeResource ==
    /\ pc = "analyze"
    /\ rc_index <= Len(plan_json.resource_changes)
    /\ \E out \in {analyze_resource_change(plan_json.resource_changes[rc_index])} :
          /\ CONFIG' = [CONFIG EXCEPT !.warnings = @ \o out.warnings]
          /\ differ_calls' = out.calls
          /\ IF out.raised
             THEN /\ pc' = "exited"
                  /\ exit_status' = UncaughtStatus
                  /\ UNCHANGED <<result, rc_index>>
             ELSE /\ result' = IF out.found THEN CountResource(result, out.res) ELSE result
                  /\ rc_index' = rc_index + 1
                  /\ UNCHANGED <<pc, exit_status>>
    /\ UNCHANGED <<AZURERM_SET_ATTRIBUTES, argv, plan_json, stdout, equivVars, differVars>>

\* "result.warnings = CONFIG.warnings.copy(); return result"
AnalyzePlanReturn ==
    /\ pc = "analyze"
    /\ rc_index > Len(plan_json.resource_changes)
    /\ result' = [result EXCEPT !.warnings = CONFIG.warnings]
    /\ pc' = "analyzed"
    /\ UNCHANGED <<CONFIG, AZURERM_SET_ATTRIBUTES, argv, plan_json, rc_index,
                   differ_calls, exit_status, stdout, equivVars, differVars>>

\* the output is printed; sys.exit(determine_exit_code(result)) under --exit-code
MainExit ==
    /\ pc = "analyzed"
    /\ stdout' = Append(stdout, "report")
    /\ exit_status' = IF argv.exit_code THEN determine_exit_code(result) ELSE 0
    /\ pc' = "exited"
    /\ UNCHANGED <<CONFIG, AZURERM_SET_ATTRIBUTES, argv, plan_json, rc_index, result,
                   differ_calls, equivVars, differVars>>

NextMain == MainLoad \/ AnalyzeResource \/ AnalyzePlanReturn \/ MainExit

\* the attributes file: "rule" is keyed by "name" and nests the Set "rules"
AttributesFile ==
    JDict(<<Item("resources",
        JDict(<<Item("azurerm_nsg",
            JDict(<<Item("rule", JDict(<<Item("_key", JStr("name")), Item("rules", None)>>))>>))>>))>>)

RuleX == ElemRules("a", 80, JList(<<JStr("x"), JStr("y")>>))
RuleY == ElemRules("a", 80, JList(<<JStr("y"), JStr("x")>>))
RuleZ == ElemRules("a", 80, JList(<<JStr("x"), JStr("z")>>))
Attrs(rule, zone) == JDict(<<Item("rule", JList(rule)), Item("zone", JStr(zone))>>)
RC(type, address, actions, before, after) ==
    [type |-> type, address |-> address, actions |-> actions, before |-> before,
     after |-> after, before_sensitive |-> None, after_sensitive |-> None]

ResourceChanges ==
    {RC("azurerm_nsg", "azurerm_nsg.reordered", <<"update">>,
        Attrs(<<Elem("a", 80), Elem("b", 81)>>, "1"), Attrs(<<Elem("b", 81), Elem("a", 80)>>, "1")),
     RC("azurerm_nsg", "azurerm_nsg.modified", <<"update">>,
        Attrs(<<Elem("a", 80), Elem("b", 81)>>, "1"), Attrs(<<Elem("a", 443), Elem("b", 81)>>, "1")),
     RC("azurerm_nsg", "azurerm_nsg.inner_reordered", <<"update">>,
        Attrs(<<RuleX>>, "1"), Attrs(<<RuleY>>, "1")),
     RC("azurerm_nsg", "azurerm_nsg.inner_changed", <<"update">>,
        Attrs(<<RuleX>>, "1"), Attrs(<<RuleZ>>, "1")),
     RC("azurerm_nsg", "azurerm_nsg.moved", <<"update">>,
        Attrs(<<Elem("a", 80)>>, "1"), Attrs(<<Elem("a", 80)>>, "2")),
     RC("azurerm_nsg", "azurerm_nsg.replaced", <<"delete", "create">>,
        Attrs(<<Elem("a", 80), Elem("b", 81)>>, "1"), Attrs(<<Elem("a", 443), Elem("b", 81)>>, "1")),
     RC("azurerm_nsg", "azurerm_nsg.recreated", <<"create", "delete">>,
        Attrs(<<Elem("a", 80)>>, "1"), Attrs(<<Elem("a", 80)>>, "1")),
     RC("azurerm_nsg", "azurerm_nsg.new", <<"create">>, None, Attrs(<<Elem("a", 80)>>, "1")),
     RC("azurerm_nsg", "azurerm_nsg.gone", <<"delete">>, Attrs(<<Elem("a", 80)>>, "1"), None),
     RC("azurerm_nsg", "azurerm_nsg.same", <<"no-op">>,
        Attrs(<<Elem("a", 80)>>, "1"), Attrs(<<Elem("a", 80)>>, "1")),
     RC("aws_vpc", "aws_vpc.other", <<"delete", "create">>,
        Attrs(<<Elem("a", 80)>>, "1"), Attrs(<<Elem("a", 443)>>, "1"))}

InitMain ==
    /\ pc = "start"
    /\ CONFIG = Config
    /\ AZURERM_SET_ATTRIBUTES = JDict(<<>>)
    /\ argv \in {[exit_code |-> e, ignore_case |-> FALSE, plan_ok |-> ok,
                  plan_fault |-> IF ok THEN "" ELSE "JSONDecodeError",
                  attributes_ok |-> aok,
                  attributes_fault |-> IF aok THEN "" ELSE "JSONDecodeError",
                  attributes |-> AttributesFile] :
                     e \in BOOLEAN, ok \in BOOLEAN, aok \in BOOLEAN}
    /\ plan_json \in {[resource_changes |-> l] : l \in SeqsUpTo(ResourceChanges, MaxResources)}
    /\ argv.plan_ok \/ Len(plan_json.resource_changes) = 0
    /\ rc_index = 0 /\ result = AnalysisResult /\ differ_calls = 0
    /\ exit_status = -1 /\ stdout = <<>>
    /\ va = None /\ vb = None /\ vc = None /\ eq = NoEq
    /\ before_list = None /\ after_list = None
    /\ key_attr = None /\ nested_attrs = JDict(<<>>)
    /\ change = SetAttributeChange("", "", FALSE) /\ raised = FALSE

SpecMain == InitMain /\ [][NextMain]_vars

(***************************************************************************)
(* normalize_for_comparison applied once and twice to two values.          *)
(***************************************************************************)
InitNormalize ==
    /\ pc = "normalize"
    /\ CONFIG \in {[Config EXCEPT !.ignore_case = ic] : ic \in BOOLEAN}
    /\ AZURERM_SET_ATTRIBUTES = JDict(<<>>)
    /\ va \in EquivValues /\ vb \in EquivValues /\ vc = None
    /\ eq = NoEq
    /\ before_list = None /\ after_list = None
    /\ key_attr = None /\ nested_attrs = JDict(<<>>)
    /\ change = SetAttributeChange("", "", FALSE) /\ raised = FALSE
    /\ argv = NoArgv /\ plan_json = None
    /\ rc_index = 0 /\ result = AnalysisResult /\ differ_calls = 0
    /\ exit_status = -1 /\ stdout = <<>>

NormalizeTwice ==
    /\ pc = "normalize"
    /\ eq' = [once_a |-> normalize_for_comparison(va),
              twice_a |-> normalize_for_comparison(normalize_for_comparison(va)),
              once_b |-> normalize_for_comparison(vb),
              twice_b |-> normalize_for_comparison(normalize_for_comparison(vb))]
    /\ pc' = "normalized"
    /\ UNCHANGED <<CONFIG, AZURERM_SET_ATTRIBUTES, va, vb, vc, differVars, mainVars>>

NextNormalize == NormalizeTwice
SpecNormalize == InitNormalize /\ [][NextNormalize]_vars

(***************************************************************************)
(* get_element_key applied to two elements under one key attribute.        *)
(***************************************************************************)
\* values of the key field, and elements with and without it, the fields
\* inserted in either order
KeyNames == {JStr(""), None, JStr("a"), JStr("A"), JInt(1), JFloat(10)}
KeyElems ==
    {JDict(<<Item("name", n), Item("port", JInt(80))>>) : n \in KeyNames}
    \cup {JDict(<<Item("port", JInt(80)), Item("name", n)>>) : n \in {JStr("a"), JStr("A")}}
    \cup {JDict(<<Item("port", JInt(80)), Item("zone", JStr("1"))>>),
          JDict(<<Item("zone", JStr("1")), Item("port", JInt(80))>>)}

InitKeyer ==
    /\ pc = "key"
    /\ CONFIG \in {[Config EXCEPT !.ignore_case = ic] : ic \in BOOLEAN}
    /\ AZURERM_SET_ATTRIBUTES = JDict(<<>>)
    /\ va \in KeyElems /\ vb \in KeyElems
    /\ vc \in {None, JStr(""), JStr("name")}
    /\ eq = NoEq
    /\ before_list = None /\ after_list = None
    /\ key_attr = None /\ nested_attrs = JDict(<<>>)
    /\ change = SetAttributeChange("", "", FALSE) /\ raised = FALSE
    /\ argv = NoArgv /\ plan_json = None
    /\ rc_index = 0 /\ result = AnalysisResult /\ differ_calls = 0
    /\ exit_status = -1 /\ stdout = <<>>

GetElementKeys ==
    /\ pc = "key"
    /\ eq' = [ka |-> get_element_key(va, vc), kb |-> get_element_key(vb, vc)]
    /\ pc' = "keyed"
    /\ UNCHANGED <<CONFIG, AZURERM_SET_ATTRIBUTES, va, vb, vc, differVars, mainVars>>

NextKeyer == GetElementKeys
SpecKeyer == InitKeyer /\ [][NextKeyer]_vars

(***************************************************************************)
(* main over plans that exercise the skips of analyze_resource_change.     *)
(***************************************************************************)
\* the attributes file: "rule" as above, "tags" a Set of primitives
AnalyzerAttributesFile ==
    JDict(<<Item("resources",
        JDict(<<Item("azurerm_nsg",
            JDict(<<Item("rule", JDict(<<Item("_key", JStr("name")), Item("rules", None)>>)),
                    Item("tags", None)>>))>>))>>)

NsgAttrs(rule, tags, zone, id) ==
    JDict(<<Item("rule", rule), Item("tags", tags), Item("zone", JStr(zone)),
            Item("_id", JStr(id))>>)
TagsXY == JList(<<JStr("x"), JStr("y")>>)
TagsYX == JList(<<JStr("y"), JStr("x")>>)
\* before_sensitive / after_sensitive marking the attribute "rule"
RuleIsSensitive == JDict(<<Item("rule", JBool(TRUE))>>)
Sensitive(rc) == [rc EXCEPT !.before_sensitive = RuleIsSensitive,
                            !.after_sensitive = RuleIsSensitive]

AnalyzerChanges ==
    {RC("azurerm_nsg", "azurerm_nsg.updated", <<"update">>,
        NsgAttrs(JList(<<Elem("a", 80)>>), TagsXY, "1", "i"),
        NsgAttrs(JList(<<Elem("a", 443)>>), TagsXY, "2", "i")),
     Sensitive(RC("azurerm_nsg", "azurerm_nsg.secret", <<"update">>,
        NsgAttrs(JList(<<Elem("a", 80), Elem("b", 81)>>), TagsXY, "1", "i"),
        NsgAttrs(JList(<<Elem("b", 81), Elem("a", 80)>>), TagsXY, "1", "i"))),
     Sensitive(RC("azurerm_nsg", "azurerm_nsg.idle", <<"no-op">>,
        NsgAttrs(JList(<<Elem("a", 80), Elem("a", 81)>>), TagsXY, "1", "i"),
        NsgAttrs(JList(<<Elem("a", 443)>>), TagsYX, "2", "i"))),
     Sensitive(RC("aws_vpc", "aws_vpc.foreign", <<"update">>,
        NsgAttrs(JList(<<Elem("a", 80)>>), TagsXY, "1", "i"),
        NsgAttrs(JList(<<Elem("a", 443)>>), TagsYX, "2", "i"))),
     RC("azurerm_nsg", "azurerm_nsg.new", <<"create">>,
        None, NsgAttrs(JList(<<Elem("a", 80)>>), TagsXY, "1", "i")),
     RC("azurerm_nsg", "azurerm_nsg.gone", <<"delete">>,
        NsgAttrs(JList(<<Elem("a", 80)>>), TagsXY, "1", "i"), None),
     RC("azurerm_nsg", "azurerm_nsg.emptied", <<"update">>,
        NsgAttrs(JList(<<Elem("a", 80)>>), TagsXY, "1", "i"),
        NsgAttrs(JList(<<ElemRules("a", 80, JList(<<>>))>>), TagsXY, "1", "i")),
     RC("azurerm_nsg", "azurerm_nsg.retagged", <<"update">>,
        NsgAttrs(JList(<<Elem("a", 80)>>), TagsXY, "1", "i"),
        NsgAttrs(JList(<<Elem("a", 80)>>), TagsYX, "1", "j")),
     RC("azurerm_nsg", "azurerm_nsg.unset", <<"update">>,
        NsgAttrs(None, TagsXY, "1", "i"),
        NsgAttrs(JList(<<>>), TagsXY, "1", "i")),
     RC("azurerm_nsg", "azurerm_nsg.renamed", <<"update">>,
        NsgAttrs(JList(<<Elem("a", 80)>>), TagsXY, "1", "i"),
        NsgAttrs(JList(<<Elem("a", 80)>>), TagsXY, "2", "i")),
     RC("azurerm_nsg", "azurerm_nsg.doubled", <<"update">>,
        NsgAttrs(JList(<<Elem("a", 80), Elem("a", 443)>>), TagsXY, "1", "i"),
        NsgAttrs(JList(<<Elem("a", 443)>>), TagsXY, "1", "i")),
     RC("azurerm_nsg", "azurerm_nsg.replaced", <<"delete", "create">>,
        NsgAttrs(JList(<<Elem("a", 80)>>), TagsXY, "1", "i"),
        NsgAttrs(JList(<<Elem("a", 443)>>), TagsXY, "1", "i"))}

InitAnalyzer ==
    /\ pc = "start"
    /\ CONFIG = Config
    /\ AZURERM_SET_ATTRIBUTES = JDict(<<>>)
    /\ argv \in {[exit_code |-> e, ignore_case |-> FALSE, plan_ok |-> TRUE,
                  plan_fault |-> "", attributes_ok |-> TRUE, attributes_fault |-> "",
                  attributes |-> AnalyzerAttributesFile] :
                     e \in BOOLEAN}
    /\ plan_json \in {[resource_changes |-> l] : l \in SeqsUpTo(AnalyzerChanges, MaxResources)}
    /\ rc_index = 0 /\ result = AnalysisResult /\ differ_calls = 0
    /\ exit_status = -1 /\ stdout = <<>>
    /\ va = None /\ vb = None /\ vc = None /\ eq = NoEq
    /\ before_list = None /\ after_list = None
    /\ key_attr = None /\ nested_attrs = JDict(<<>>)
    /\ change = SetAttributeChange("", "", FALSE) /\ raised = FALSE

SpecAnalyzer == InitAnalyzer /\ [][NextMain]_vars

(***************************************************************************)
(* analyze_plan and determine_exit_code called on one plan twice in one    *)
(* process: the second call finds the warnings accumulator and the         *)
(* verbose / quiet settings as something else left them.                   *)
(***************************************************************************)
PriorWarnings == {<<>>, <<"Attributes file not found: attributes.json">>}
Configs ==
    {[ignore_case |-> FALSE, quiet |-> q, verbose |-> v, warnings |-> w] :
        q \in BOOLEAN, v \in BOOLEAN, w \in PriorWarnings}
WarnedChanges ==
    {rc \in AnalyzerChanges :
        rc.address \in {"azurerm_nsg.updated", "azurerm_nsg.secret", "azurerm_nsg.doubled",
                        "azurerm_nsg.retagged", "azurerm_nsg.replaced", "azurerm_nsg.idle"}}

InitTwice ==
    /\ pc = "analyze"
    /\ CONFIG \in Configs
    /\ AZURERM_SET_ATTRIBUTES = load_set_attributes(AnalyzerAttributesFile)
    /\ argv = [exit_code |-> TRUE, ignore_case |-> FALSE, plan_ok |-> TRUE,
               plan_fault |-> "", attributes_ok |-> TRUE, attributes_fault |-> "",
               attributes |-> AnalyzerAttributesFile]
    /\ plan_json \in {[resource_changes |-> l] : l \in SeqsUpTo(WarnedChanges, MaxResources)}
    /\ rc_index = 1 /\ result = AnalysisResult /\ differ_calls = 0
    /\ exit_status = -1 /\ stdout = <<>>
    /\ va = None /\ vb = None /\ vc = None /\ eq = NoEq
    /\ before_list = None /\ after_list = None
    /\ key_attr = None /\ nested_attrs = JDict(<<>>)
    /\ change = SetAttributeChange("", "", FALSE) /\ raised = FALSE

\* the first call has returned: its result and status are kept in eq, and
\* analyze_plan is entered again
Rerun ==
    /\ pc = "analyzed"
    /\ eq = NoEq
    /\ eq' = [result |-> result, status |-> determine_exit_code(result)]
    /\ CONFIG' \in Configs
    /\ result' = AnalysisResult
    /\ rc_index' = 1
    /\ differ_calls' = 0
    /\ pc' = "analyze"
    /\ UNCHANGED <<AZURERM_SET_ATTRIBUTES, va, vb, vc, argv, plan_json, exit_status,
                   stdout, differVars>>

NextTwice == AnalyzeResource \/ AnalyzePlanReturn \/ Rerun \/ MainExit
SpecTwice == InitTwice /\ [][NextTwice]_vars

(***************************************************************************)
(* get_attr_config applied to two raw attribute definitions.               *)
(***************************************************************************)
SchemaShapes ==
    {None, JStr("name"), JStr(""),
     JDict(<<>>),
     JDict(<<Item("_key", JStr("name"))>>),
     JDict(<<Item("_key", JStr("name")), Item("rules", None)>>),
     JDict(<<Item("rules", JDict(<<Item("_key", JStr("name"))>>)), Item("tags", None)>>),
     JDict(<<Item("rules", None), Item("_key", None)>>),
     JDict(<<Item("_key", JInt(5))>>),
     JInt(5), JFloat(15), JBool(TRUE), JList(<<>>), JList(<<JStr("name")>>)}

InitSchema ==
    /\ pc = "schema"
    /\ CONFIG = Config
    /\ AZURERM_SET_ATTRIBUTES = JDict(<<>>)
    /\ va \in SchemaShapes /\ vb \in SchemaShapes /\ vc = None
    /\ eq = NoEq
    /\ before_list = None /\ after_list = None
    /\ key_attr = None /\ nested_attrs = JDict(<<>>)
    /\ change = SetAttributeChange("", "", FALSE) /\ raised = FALSE
    /\ argv = NoArgv /\ plan_json = None
    /\ rc_index = 0 /\ result = AnalysisResult /\ differ_calls = 0
    /\ exit_status = -1 /\ stdout = <<>>

GetAttrConfigs ==
    /\ pc = "schema"
    /\ eq' = [a |-> get_attr_config(va), b |-> get_attr_config(vb)]
    /\ pc' = "parsed"
    /\ UNCHANGED <<CONFIG, AZURERM_SET_ATTRIBUTES, va, vb, vc, differVars, mainVars>>

NextSchema == GetAttrConfigs
SpecSchema == InitSchema /\ [][NextSchema]_vars

(***************************************************************************)
(* analyze_plan called twice on one plan in one process, as a caller of    *)
(* the function does: nothing is done to CONFIG between the calls.         *)
(***************************************************************************)
InitAgain ==
    /\ pc = "analyze"
    /\ CONFIG \in {[Config EXCEPT !.ignore_case = ic] : ic \in BOOLEAN}
    /\ AZURERM_SET_ATTRIBUTES = load_set_attributes(AnalyzerAttributesFile)
    /\ argv = [exit_code |-> TRUE, ignore_case |-> CONFIG.ignore_case, plan_ok |-> TRUE,
               plan_fault |-> "", attributes_ok |-> TRUE, attributes_fault |-> "",
               attributes |-> AnalyzerAttributesFile]
    /\ plan_json \in {[resource_changes |-> l] : l \in SeqsUpTo(WarnedChanges, MaxResources)}
    /\ rc_index = 1 /\ result = AnalysisResult /\ differ_calls = 0
    /\ exit_status = -1 /\ stdout = <<>>
    /\ va = None /\ vb = None /\ vc = None /\ eq = NoEq
    /\ before_list = None /\ after_list = None
    /\ key_attr = None /\ nested_attrs = JDict(<<>>)
    /\ change = SetAttributeChange("", "", FALSE) /\ raised = FALSE

\* the first call has returned: its result is kept in eq, and analyze_plan
\* is entered again with "result = AnalysisResult()"
AnalyzePlanAgain ==
    /\ pc = "analyzed"
    /\ eq = NoEq
    /\ eq' = [result |-> result]
    /\ result' = AnalysisResult
    /\ rc_index' = 1
    /\ differ_calls' = 0
    /\ pc' = "analyze"
    /\ UNCHANGED <<CONFIG, AZURERM_SET_ATTRIBUTES, va, vb, vc, argv, plan_json,
                   exit_status, stdout, differVars>>

NextAgain == AnalyzeResource \/ AnalyzePlanReturn \/ AnalyzePlanAgain
SpecAgain == InitAgain /\ [][NextAgain]_vars

(***************************************************************************)
(* Two runs, the second over a reordering of the plan of the first.        *)
(***************************************************************************)
Reorderings(l) ==
    {[i \in DOMAIN l |-> l[p[i]]] :
        p \in {q \in [DOMAIN l -> DOMAIN l] : \A i, j \in DOMAIN l : q[i] = q[j] => i = j}}

PermutedChanges ==
    {rc \in AnalyzerChanges :
        rc.address \in {"azurerm_nsg.updated", "azurerm_nsg.new", "azurerm_nsg.gone",
                        "azurerm_nsg.replaced", "azurerm_nsg.doubled",
                        "azurerm_nsg.emptied", "azurerm_nsg.idle"}}

InitPermute ==
    /\ pc = "analyze"
    /\ CONFIG = Config
    /\ AZURERM_SET_ATTRIBUTES = load_set_attributes(AnalyzerAttributesFile)
    /\ argv = [exit_code |-> TRUE, ignore_case |-> FALSE, plan_ok |-> TRUE,
               plan_fault |-> "", attributes_ok |-> TRUE, attributes_fault |-> "",
               attributes |-> AnalyzerAttributesFile]
    /\ plan_json \in {[resource_changes |-> l] : l \in SeqsUpTo(PermutedChanges, MaxResources)}
    /\ rc_index = 1 /\ result = AnalysisResult /\ differ_calls = 0
    /\ exit_status = -1 /\ stdout = <<>>
    /\ va = None /\ vb = None /\ vc = None /\ eq = NoEq
    /\ before_list = None /\ after_list = None
    /\ key_attr = None /\ nested_attrs = JDict(<<>>)
    /\ change = SetAttributeChange("", "", FALSE) /\ raised = FALSE

\* the first run is over: its plan, result and status are kept in eq; the
\* second run starts as main does (CONFIG.warnings = []) on a reordering
AnalyzeReordered ==
    /\ pc = "analyzed"
    /\ eq = NoEq
    /\ eq' = [plan |-> plan_json.resource_changes, result |-> result,
              status |-> determine_exit_code(result)]
    /\ plan_json' \in {[resource_changes |-> l] : l \in Reorderings(plan_json.resource_changes)}
    /\ CONFIG' = [CONFIG EXCEPT !.warnings = <<>>]
    /\ result' = AnalysisResult
    /\ rc_index' = 1
    /\ differ_calls' = 0
    /\ pc' = "analyze"
    /\ UNCHANGED <<AZURERM_SET_ATTRIBUTES, va, vb, vc, argv, exit_status, stdout,
                   differVars>>

NextPermute == AnalyzeResource \/ AnalyzePlanReturn \/ AnalyzeReordered
SpecPermute == InitPermute /\ [][NextPermute]_vars

(***************************************************************************)
(* analyze_set_attribute applied to raw attribute values: to va and vb as  *)
(* they are, and with one side replaced by the list of that one value and  *)
(* by the empty list.                                                      *)
(***************************************************************************)
RawValues ==
    {None, JStr(""), JStr("x"), JInt(0), JInt(5), JBool(FALSE), JDict(<<>>),
     Elem("a", 80), Elem("a", 443),
     JList(<<>>), JList(<<JStr("x")>>), JList(<<JInt(0)>>), JList(<<Elem("a", 80)>>),
     JList(<<JStr("x"), Elem("a", 80)>>), JList(<<Elem("a", 80), JInt(5)>>)}

InitCoerce ==
    /\ pc = "raw"
    /\ CONFIG = Config
    /\ AZURERM_SET_ATTRIBUTES = JDict(<<>>)
    /\ va \in RawValues /\ vb \in RawValues /\ vc = JStr("name")
    /\ eq = NoEq
    /\ before_list = None /\ after_list = None
    /\ key_attr = None /\ nested_attrs = JDict(<<>>)
    /\ change = SetAttributeChange("", "", FALSE) /\ raised = FALSE
    /\ argv = NoArgv /\ plan_json = None
    /\ rc_index = 0 /\ result = AnalysisResult /\ differ_calls = 0
    /\ exit_status = -1 /\ stdout = <<>>

AnalyzeRawValues ==
    /\ pc = "raw"
    /\ eq' = [raw |-> analyze_set_attribute(va, vb, vc, "rule", None, ""),
              before_single |-> analyze_set_attribute(JList(<<va>>), vb, vc, "rule", None, ""),
              before_empty |-> analyze_set_attribute(JList(<<>>), vb, vc, "rule", None, ""),
              after_single |-> analyze_set_attribute(va, JList(<<vb>>), vc, "rule", None, ""),
              after_empty |-> analyze_set_attribute(va, JList(<<>>), vc, "rule", None, "")]
    /\ pc' = "analyzed raw"
    /\ UNCHANGED <<CONFIG, AZURERM_SET_ATTRIBUTES, va, vb, vc, differVars, mainVars>>

NextCoerce == AnalyzeRawValues
SpecCoerce == InitCoerce /\ [][NextCoerce]_vars

(***************************************************************************)
(* analyze_set_attribute applied to primitive collections that hold null   *)
(* and empty strings.                                                      *)
(***************************************************************************)
EmptyPrims == {None, JStr(""), JStr("x"), JStr("X")}

InitEmptyPrimitive ==
    /\ pc = "differ"
    /\ CONFIG \in {[Config EXCEPT !.ignore_case = ic] : ic \in BOOLEAN}
    /\ AZURERM_SET_ATTRIBUTES = JDict(<<>>)
    /\ before_list \in {JList(l) : l \in SeqsUpTo(EmptyPrims, MaxLen)}
    /\ after_list \in {JList(l) : l \in SeqsUpTo(EmptyPrims, MaxLen)}
    /\ key_attr = None
    /\ nested_attrs = JDict(<<>>)
    /\ change = SetAttributeChange("", "", FALSE) /\ raised = FALSE
    /\ va = None /\ vb = None /\ vc = None /\ eq = NoEq
    /\ argv = NoArgv /\ plan_json = None
    /\ rc_index = 0 /\ result = AnalysisResult /\ differ_calls = 0
    /\ exit_status = -1 /\ stdout = <<>>

SpecEmptyPrimitive == InitEmptyPrimitive /\ [][NextDiffer]_vars

(***************************************************************************)
(* analyze_set_attribute applied to composite elements whose field "note"  *)
(* is absent, null, empty or set, and whose strings differ in case.        *)
(***************************************************************************)
Noted(name, note) == JDict(<<Item("name", JStr(name)), Item("note", note)>>)
NotedElems ==
    {JDict(<<Item("name", JStr("a"))>>),
     Noted("a", None), Noted("a", JStr("")), Noted("a", JList(<<>>)),
     Noted("a", JStr("x")), Noted("A", JStr("X"))}

InitNoted ==
    /\ pc = "differ"
    /\ CONFIG \in {[Config EXCEPT !.ignore_case = ic] : ic \in BOOLEAN}
    /\ AZURERM_SET_ATTRIBUTES = JDict(<<>>)
    /\ before_list \in {JList(l) : l \in SeqsUpTo(NotedElems, MaxLen)}
    /\ after_list \in {JList(l) : l \in SeqsUpTo(NotedElems, MaxLen)}
    /\ key_attr = JStr("name")
    /\ nested_attrs = JDict(<<Item("rules", None)>>)
    /\ change = SetAttributeChange("", "", FALSE) /\ raised = FALSE
    /\ va = None /\ vb = None /\ vc = None /\ eq = NoEq
    /\ argv = NoArgv /\ plan_json = None
    /\ rc_index = 0 /\ result = AnalysisResult /\ differ_calls = 0
    /\ exit_status = -1 /\ stdout = <<>>

SpecNoted == InitNoted /\ [][NextDiffer]_vars

(***************************************************************************)
(* analyze_set_attribute applied to a Set nested two levels deep: "rule"   *)
(* elements keyed by "name" hold the Set "rules", whose elements, keyed by *)
(* "name", hold the primitive Set "ports".                                 *)
(***************************************************************************)
Inner(ports) == JDict(<<Item("name", JStr("r")), Item("ports", JList(ports))>>)
InnerXY == Inner(<<JStr("x"), JStr("y")>>)
InnerYX == Inner(<<JStr("y"), JStr("x")>>)
InnerXZ == Inner(<<JStr("x"), JStr("z")>>)
DeepElems ==
    {ElemRules("a", 80, JList(<<InnerXY>>)), ElemRules("a", 80, JList(<<InnerYX>>)),
     ElemRules("a", 80, JList(<<InnerXZ>>)), ElemRules("a", 443, JList(<<InnerXZ>>)),
     ElemRules("b", 81, JList(<<InnerXY>>))}

InitDeep ==
    /\ pc = "differ"
    /\ CONFIG = Config
    /\ AZURERM_SET_ATTRIBUTES = JDict(<<>>)
    /\ before_list \in {JList(l) : l \in SeqsUpTo(DeepElems, MaxLen)}
    /\ after_list \in {JList(l) : l \in SeqsUpTo(DeepElems, MaxLen)}
    /\ key_attr = JStr("name")
    /\ nested_attrs =
          JDict(<<Item("rules", JDict(<<Item("_key", JStr("name")), Item("ports", None)>>))>>)
    /\ change = SetAttributeChange("", "", FALSE) /\ raised = FALSE
    /\ va = None /\ vb = None /\ vc = None /\ eq = NoEq
    /\ argv = NoArgv /\ plan_json = None
    /\ rc_index = 0 /\ result = AnalysisResult /\ differ_calls = 0
    /\ exit_status = -1 /\ stdout = <<>>

SpecDeep == InitDeep /\ [][NextDiffer]_vars

(***************************************************************************)
(* main over every way of reading the two input files.                     *)
(***************************************************************************)
Faults == {"FileNotFoundError", "JSONDecodeError", "OSError", "AttributeError"}

InputChanges ==
    {RC("azurerm_nsg", "azurerm_nsg.modified", <<"update">>,
        Attrs(<<Elem("a", 80), Elem("b", 81)>>, "1"), Attrs(<<Elem("a", 443), Elem("b", 81)>>, "1")),
     RC("azurerm_nsg", "azurerm_nsg.replaced", <<"delete", "create">>,
        Attrs(<<Elem("a", 80)>>, "1"), Attrs(<<Elem("a", 443)>>, "1")),
     RC("azurerm_nsg", "azurerm_nsg.same", <<"no-op">>,
        Attrs(<<Elem("a", 80)>>, "1"), Attrs(<<Elem("a", 80)>>, "1"))}

InitInputs ==
    /\ pc = "start"
    /\ CONFIG = Config
    /\ AZURERM_SET_ATTRIBUTES = JDict(<<>>)
    /\ argv \in {[exit_code |-> e, ignore_case |-> FALSE,
                  plan_ok |-> (pf = ""), plan_fault |-> pf,
                  attributes_ok |-> (af = ""), attributes_fault |-> af,
                  attributes |-> AttributesFile] :
                     e \in BOOLEAN, pf \in Faults \cup {""}, af \in Faults \cup {""}}
    /\ plan_json \in {[resource_changes |-> l] : l \in SeqsUpTo(InputChanges, MaxResources)}
    /\ argv.plan_ok \/ Len(plan_json.resource_changes) = 0
    /\ rc_index = 0 /\ result = AnalysisResult /\ differ_calls = 0
    /\ exit_status = -1 /\ stdout = <<>>
    /\ va = None /\ vb = None /\ vc = None /\ eq = NoEq
    /\ before_list = None /\ after_list = None
    /\ key_attr = None /\ nested_attrs = JDict(<<>>)
    /\ change = SetAttributeChange("", "", FALSE) /\ raised = FALSE

SpecInputs == InitInputs /\ [][NextMain]_vars

\* every harness together
Init ==
    \/ InitEquiv \/ InitDiffer \/ InitPrimitive \/ InitMain \/ InitNormalize \/ InitKeyer
    \/ InitAnalyzer \/ InitTwice \/ InitSchema \/ InitInputs \/ InitAgain
    \/ InitPermute \/ InitCoerce \/ InitEmptyPrimitive
    \/ InitNoted \/ InitDeep
Next ==
    \/ NextEquiv \/ NextDiffer \/ NextMain \/ NextNormalize \/ NextKeyer \/ NextTwice
    \/ NextSchema \/ NextAgain \/ NextPermute
    \/ NextCoerce
Spec == Init /\ [][Next]_vars

(***************************************************************************)
(* Properties.                                                             *)
(***************************************************************************)
Count(e, l) == Cardinality({i \in DOMAIN l : l[i] = e})
\* l2 holds the very elements of l1, in any order
IsPermutation(l1, l2) ==
    /\ Len(l1) = Len(l2)
    /\ \A e \in Range(l1) \cup Range(l2) : Count(e, l1) = Count(e, l2)

\* the differ returned from its composite branch
Differed == pc = "differed" /\ ~raised /\ ~change.is_primitive
KeyAt(list, i) == get_element_key(list.l[i], key_attr)
KeysOf(list) == {KeyAt(list, i) : i \in DOMAIN list.l}
DistinctKeys(list) == \A i, j \in DOMAIN list.l : i # j => KeyAt(list, i) # KeyAt(list, j)
\* the element a side keeps for key k: the last one that carries it
LastWithKey(list, k) ==
    list.l[CHOOSE i \in DOMAIN list.l :
              KeyAt(list, i) = k /\ \A j \in DOMAIN list.l : KeyAt(list, j) = k => j <= i]
Matched == KeysOf(before_list) \cap KeysOf(after_list)
NestedNames == DictKeys(nested_attrs)
\* the plain fields of the pair kept for key k whose values are not equivalent
FieldDiffs(k) ==
    LET be == LastWithKey(before_list, k)
        ae == LastWithKey(after_list, k)
    IN {f \in (DictKeys(be) \cup DictKeys(ae)) \ NestedNames :
            ~values_equivalent(DictGet(be, f), DictGet(ae, f))}
\* the schema-declared nested fields of the pair kept for key k that differ
NestedDiffs(k) ==
    LET be == LastWithKey(before_list, k)
        ae == LastWithKey(after_list, k)
    IN {f \in (DictKeys(be) \cup DictKeys(ae)) \cap NestedNames :
            ~PyEq(DictGet(be, f), DictGet(ae, f))}
ModifiedFor(k) ==
    {i \in DOMAIN change.modified : change.modified[i].key = DisplayKey(k, key_attr)}

\* every element carries the configured key field, and no element occurs twice
Keyed(list) ==
    /\ Truthy(key_attr)
    /\ \A i \in DOMAIN list.l : HasKey(list.l[i], key_attr.s)
    /\ \A i, j \in DOMAIN list.l : i # j => list.l[i] # list.l[j]

\* C1 as stated: for every keyed collection of composite elements and every
\* permutation of it as the after-list, nothing is added, removed or modified
\* and the order-only count is the number of elements
C1_AnyPermutation ==
    (Differed /\ Keyed(before_list) /\ IsPermutation(before_list.l, after_list.l)) =>
        /\ change.added = <<>> /\ change.removed = <<>> /\ change.modified = <<>>
        /\ change.order_only_count = Len(before_list.l)

\* C1 amended: the same for a collection whose element keys are pairwise
\* distinct (with a repeated key the map keeps one element per key)
C1_PermutationDistinctKeys ==
    (Differed /\ IsPermutation(before_list.l, after_list.l) /\ DistinctKeys(before_list)) =>
        /\ change.added = <<>> /\ change.removed = <<>> /\ change.modified = <<>>
        /\ change.order_only_count = Len(before_list.l)

C1_Witness ==
    /\ Differed
    /\ key_attr = JStr("name")
    /\ before_list = JList(<<Elem("a", 80), Elem("b", 81)>>)
    /\ after_list = JList(<<Elem("b", 81), Elem("a", 80)>>)
    /\ change.order_only_count = 2
    /\ change.added = <<>> /\ change.removed = <<>> /\ change.modified = <<>>

\* C2 as stated: for keyed collections, |before| = matched + removed and
\* |after| = matched + added, matched being the number of keys on both sides
C2_ElementCounts ==
    (Differed /\ Keyed(before_list) /\ Keyed(after_list)) =>
        /\ Len(before_list.l) = Cardinality(Matched) + Len(change.removed)
        /\ Len(after_list.l) = Cardinality(Matched) + Len(change.added)

\* C2 amended: the number of distinct keys of a side is matched + removed
\* (before) and matched + added (after)
C2_KeyCounts ==
    Differed =>
        /\ Cardinality(KeysOf(before_list)) = Cardinality(Matched) + Len(change.removed)
        /\ Cardinality(KeysOf(after_list)) = Cardinality(Matched) + Len(change.added)

C2_Witness ==
    /\ Differed
    /\ Cardinality(Matched) = 1
    /\ Len(change.removed) = 1 /\ Len(change.added) = 1
    /\ Len(before_list.l) = 2 /\ Len(after_list.l) = 2

\* C3: a key present on both sides whose kept elements differ in a plain
\* field has exactly one modified entry, whose diff maps each differing field
\* to its before and after values, and is not counted as order-only
C3_ModifiedEntry ==
    Differed =>
        /\ \A k \in Matched :
              FieldDiffs(k) # {} =>
                 /\ Cardinality(ModifiedFor(k)) = 1
                 /\ \A i \in ModifiedFor(k) :
                       LET diffs == change.modified[i].diffs
                       IN /\ {diffs[j].k : j \in DOMAIN diffs} = FieldDiffs(k)
                          /\ Len(diffs) = Cardinality(FieldDiffs(k))
                          /\ \A j \in DOMAIN diffs :
                                diffs[j].v =
                                  [before |-> DictGet(LastWithKey(before_list, k), diffs[j].k),
                                   after |-> DictGet(LastWithKey(after_list, k), diffs[j].k)]
        /\ change.order_only_count <= Cardinality({k \in Matched : FieldDiffs(k) = {}})

C3_Witness ==
    /\ Differed
    /\ key_attr = JStr("name")
    /\ before_list = JList(<<Elem("a", 80)>>)
    /\ after_list = JList(<<Elem("a", 443)>>)
    /\ change.modified =
          <<[key |-> "a",
             diffs |-> <<Item("port", [before |-> JInt(80), after |-> JInt(443)])>>]>>
    /\ change.added = <<>> /\ change.removed = <<>>
    /\ change.order_only_count = 0

\* the class of a primitive under the comparison of analyze_primitive_set:
\* Python equality, after case-folding of strings when that is enabled
PrimClass(v) ==
    IF IsNum(v) THEN "number " \o ToString(Tenths(v))
    ELSE IF v.t = "str" THEN "str " \o (IF CONFIG.ignore_case THEN Lower(v.s) ELSE v.s)
    ELSE "None"
ClassesOf(l) == {PrimClass(l[i]) : i \in DOMAIN l}
BeforeSet == ClassesOf(before_list.l)
AfterSet == ClassesOf(after_list.l)

\* C4: for a primitive collection removed is before-set minus after-set and
\* added is after-set minus before-set; the order-only count is the number of
\* common elements when nothing is added or removed, and 0 otherwise
C4_PrimitiveSetDifference ==
    (pc = "differed" /\ (HasPrimitive(before_list.l) \/ HasPrimitive(after_list.l))) =>
        /\ ~raised
        /\ change.is_primitive
        /\ ClassesOf(change.primitive_removed) = BeforeSet \ AfterSet
        /\ Len(change.primitive_removed) = Cardinality(BeforeSet \ AfterSet)
        /\ ClassesOf(change.primitive_added) = AfterSet \ BeforeSet
        /\ Len(change.primitive_added) = Cardinality(AfterSet \ BeforeSet)
        /\ change.order_only_count =
              IF BeforeSet = AfterSet THEN Cardinality(BeforeSet) ELSE 0

C4_Witness ==
    /\ pc = "differed"
    /\ before_list = JList(<<JStr("x"), JStr("y")>>)
    /\ after_list = JList(<<JStr("y"), JStr("z")>>)
    /\ change.is_primitive
    /\ change.primitive_added = <<JStr("z")>>
    /\ change.primitive_removed = <<JStr("x")>>
    /\ change.order_only_count = 0

\* the matched pair kept for key k is unchanged except that one schema-declared
\* nested collection holds the same items in another order
ReorderedInside(k) ==
    LET be == LastWithKey(before_list, k)
        ae == LastWithKey(after_list, k)
    IN /\ DictKeys(be) = DictKeys(ae)
       /\ \A f \in DictKeys(be) \ NestedNames : DictAt(be, f) = DictAt(ae, f)
       /\ Cardinality(NestedDiffs(k)) = 1
       /\ \A f \in NestedDiffs(k) :
             /\ DictAt(be, f).t = "list" /\ DictAt(ae, f).t = "list"
             /\ IsPermutation(DictAt(be, f).l, DictAt(ae, f).l)
\* the nested results recorded for field f that show a reordering only
NestedReorderings(f) ==
    {i \in DOMAIN change.nested_changes :
        /\ change.nested_changes[i].attribute_name = f
        /\ change.nested_changes[i].path = "rule." \o f
        /\ change.nested_changes[i].order_only_count > 0
        /\ ~has_actual_change(change.nested_changes[i])}
IdenticalPairs ==
    {k \in Matched : LastWithKey(before_list, k) = LastWithKey(after_list, k)}
ReorderedPairs == {k \in Matched : ReorderedInside(k)}

\* C8 as stated: a matched parent that is unchanged except for a reordered
\* nested collection is counted in the parent's order-only count, has a
\* nested finding and no modified entry
C8_ParentCountedOrderOnly ==
    Differed =>
        /\ \A k \in ReorderedPairs :
              /\ ModifiedFor(k) = {}
              /\ \A f \in NestedDiffs(k) : NestedReorderings(f) # {}
        /\ change.order_only_count >= Cardinality(IdenticalPairs \cup ReorderedPairs)

\* C8 amended: such a parent has a nested finding and no modified entry, and
\* is not counted in the parent's order-only count
C8_ParentNotCounted ==
    Differed =>
        /\ \A k \in ReorderedPairs :
              /\ ModifiedFor(k) = {}
              /\ \A f \in NestedDiffs(k) : NestedReorderings(f) # {}
        /\ change.order_only_count <= Cardinality(Matched \ ReorderedPairs)

C8_Witness ==
    /\ Differed
    /\ key_attr = JStr("name")
    /\ before_list = JList(<<ElemRules("a", 80, JList(<<JStr("x"), JStr("y")>>))>>)
    /\ after_list = JList(<<ElemRules("a", 80, JList(<<JStr("y"), JStr("x")>>))>>)
    /\ Len(change.nested_changes) = 1
    /\ change.nested_changes[1].order_only_count = 2
    /\ change.modified = <<>>
    /\ change.order_only_count = 0

\* no differing nested collection of a matched pair is empty or absent
NoEmptyNested ==
    \A k \in Matched : \A f \in NestedDiffs(k) :
        /\ Truthy(DictGet(LastWithKey(before_list, k), f))
        /\ Truthy(DictGet(LastWithKey(after_list, k), f))

C10_EquivalenceRelation ==
    pc = "compared" =>
        /\ eq.aa
        /\ eq.ab => eq.ba
        /\ (eq.ab /\ eq.bc) => eq.ac

C10_Witness ==
    /\ pc = "compared"
    /\ va # vb /\ vb # vc /\ va # vc
    /\ eq.ab /\ eq.bc /\ eq.ac
    /\ va.t # vb.t /\ vb.t # vc.t

\* the resource changes analyze_plan has been through
Processed == SubSeq(plan_json.resource_changes, 1, rc_index - 1)
\* neither a no-op nor outside the azurerm_ namespace
Governed(rc) == rc.actions # <<"no-op">> /\ startswith_azurerm(rc.type)
IsReplacement(rc) == "delete" \in Range(rc.actions) /\ "create" \in Range(rc.actions)
HowMany(l, P(_)) == Cardinality({i \in DOMAIN l : P(l[i])})
GovernedReplacement(rc) == Governed(rc) /\ IsReplacement(rc)
GovernedCreate(rc) == Governed(rc) /\ rc.actions = <<"create">>
GovernedDelete(rc) == Governed(rc) /\ rc.actions = <<"delete">>
\* the schema-declared attributes of rc whose two values differ, one a list
ChangedSetAttrs(rc) ==
    {a \in DictKeys(SetAttrsOf(rc.type)) :
        LET b == DictGet(OrEmptyDict(rc.before), a)
            c == DictGet(OrEmptyDict(rc.after), a)
        IN ~PyEq(b, c) /\ (b.t = "list" \/ c.t = "list")}
Analyzing == pc \in {"analyze", "analyzed", "exited"} /\ rc_index >= 1
ReplacementCounts ==
    /\ result.replace_count = HowMany(Processed, GovernedReplacement)
    /\ result.create_count = HowMany(Processed, GovernedCreate)
    /\ result.delete_count = HowMany(Processed, GovernedDelete)
    /\ \A i \in DOMAIN result.resources :
          result.resources[i].is_replace <=>
             ("delete" \in Range(result.resources[i].actions)
              /\ "create" \in Range(result.resources[i].actions))

\* C5 as stated: a resource change with both delete and create is a
\* replacement, counted once in replace_count and in neither create_count nor
\* delete_count, and the Set Differ is not invoked for it
C5_ReplacementSkipsDiffer ==
    Analyzing =>
        /\ ReplacementCounts
        /\ (rc_index > 1 /\ GovernedReplacement(Processed[rc_index - 1])) => differ_calls = 0

\* C5 amended: ... counted once in replace_count and in neither create_count
\* nor delete_count, and the Set Differ is invoked for it as for an update:
\* once for each schema-declared attribute whose values differ
C5_ReplacementRunsDiffer ==
    Analyzing =>
        /\ ReplacementCounts
        /\ (rc_index > 1 /\ GovernedReplacement(Processed[rc_index - 1])) =>
              differ_calls = Cardinality(ChangedSetAttrs(Processed[rc_index - 1]))

C5_Witness ==
    /\ pc = "analyze" /\ rc_index = 2
    /\ GovernedReplacement(Processed[1])
    /\ differ_calls = 1
    /\ result.replace_count = 1 /\ result.create_count = 0 /\ result.delete_count = 0
    /\ Len(result.resources[1].set_changes) = 1

\* every node of a MatchResult tree, the root first
RECURSIVE NodesOf(_)
NodesOf(c) == <<c>> \o Flatten([i \in DOMAIN c.nested_changes |-> NodesOf(c.nested_changes[i])])
\* every node of every tree of every finding of the result
ResultNodes ==
    Flatten([i \in DOMAIN result.resources |->
        Flatten([j \in DOMAIN result.resources[i].set_changes |->
            NodesOf(result.resources[i].set_changes[j])])])
ActualNode(c) ==
    \/ c.added # <<>> \/ c.removed # <<>> \/ c.modified # <<>>
    \/ c.primitive_added # <<>> \/ c.primitive_removed # <<>>
OrderOnlyNode(c) == c.order_only_count > 0 /\ ~ActualNode(c)

\* the status the summary calls for
Severity ==
    IF \E i \in DOMAIN result.resources : result.resources[i].is_replace THEN 2
    ELSE IF \/ \E i \in DOMAIN result.resources :
                  result.resources[i].is_create \/ result.resources[i].is_delete
            \/ \E i \in DOMAIN ResultNodes : ActualNode(ResultNodes[i])
    THEN 1
    ELSE 0

\* C6 as stated: the exit status of a completed run is 2 if any resource is a
\* replacement, otherwise 1 if any actual set change, create or delete
\* exists, otherwise 0; 3 is never produced for a well-formed plan
C6_StatusFromSummary ==
    (pc = "exited" /\ argv.plan_ok /\ argv.attributes_ok) => exit_status = Severity

\* C6 amended: that holds of a run with --exit-code; without --exit-code a
\* completed run exits 0; 3 is produced exactly when the plan or the
\* attributes file is malformed
C6_StatusUnderExitCode ==
    pc = "exited" =>
        /\ (argv.plan_ok /\ argv.attributes_ok /\ argv.exit_code) => exit_status = Severity
        /\ (argv.plan_ok /\ argv.attributes_ok /\ ~argv.exit_code) => exit_status = 0
        /\ exit_status = EXIT_ERROR <=> ~(argv.plan_ok /\ argv.attributes_ok)

C6_Witness ==
    /\ pc = "exited" /\ argv.plan_ok /\ argv.exit_code
    /\ exit_status = 2
    /\ result.replace_count = 1
    /\ result.actual_set_changes_count > 0
    /\ result.create_count > 0

\* C7: the aggregator classifies every node of every tree, also below a node
\* without a finding of its own, as order-only, actual or neither, and the
\* summary counts are the numbers of order-only and of actual nodes
C7_CountsAreNodeCounts ==
    Analyzing =>
        /\ result.order_only_count =
              Cardinality({i \in DOMAIN ResultNodes : OrderOnlyNode(ResultNodes[i])})
        /\ result.actual_set_changes_count =
              Cardinality({i \in DOMAIN ResultNodes : ActualNode(ResultNodes[i])})
        /\ \A i \in DOMAIN result.resources :
              \A j \in DOMAIN result.resources[i].set_changes :
                 LET walk == collect_all_changes(result.resources[i].set_changes[j], "")
                 IN \A a \in DOMAIN walk.order_only : \A b \in DOMAIN walk.actual :
                       walk.order_only[a].name # walk.actual[b].name

C7_Witness ==
    /\ pc = "analyzed"
    /\ \E i \in DOMAIN result.resources :
          \E j \in DOMAIN result.resources[i].set_changes :
             LET c == result.resources[i].set_changes[j]
             IN /\ ~OrderOnlyNode(c) /\ ~ActualNode(c)
                /\ \E n \in DOMAIN c.nested_changes : OrderOnlyNode(c.nested_changes[n])
    /\ result.order_only_count = 1
    /\ result.actual_set_changes_count = 1

\* the values the normalizer maps to the null representation
IsEmptyValue(v) ==
    \/ v.t = "null"
    \/ v.t = "str" /\ v.s = ""
    \/ v.t = "list" /\ Len(v.l) = 0

\* C11: normalizing a normalized value changes nothing, with case-folding on
\* or off, and the empty string, null and the empty list all normalize to the
\* one null representation
C11_NormalizeIdempotent ==
    pc = "normalized" =>
        /\ eq.twice_a = eq.once_a
        /\ eq.twice_b = eq.once_b
        /\ IsEmptyValue(va) => eq.once_a = None
        /\ (IsEmptyValue(va) /\ IsEmptyValue(vb)) => eq.once_a = eq.once_b

C11_Witness ==
    /\ pc = "normalized"
    /\ CONFIG.ignore_case
    /\ va = JList(<<>>) /\ vb = JStr("A")
    /\ eq.once_a = None /\ eq.twice_a = None
    /\ eq.once_b = JStr("a") /\ eq.twice_b = JStr("a")

\* the key attribute vc is configured and the element e carries it
KeyApplies(e) == Truthy(vc) /\ vc.t = "str" /\ HasKey(e, vc.s)

\* C12 as stated: when the key field is declared and carried, the key is the
\* string form of the normalized field value, so elements whose key-field
\* values are equivalent under the normalizer obtain the same key
C12_KeyIsNormalizedString ==
    (pc = "keyed" /\ KeyApplies(va) /\ KeyApplies(vb)) =>
        /\ eq.ka = PyStr(normalize_for_comparison(DictAt(va, vc.s)))
        /\ values_equivalent(DictAt(va, vc.s), DictAt(vb, vc.s)) => eq.ka = eq.kb

\* the same fields with the same values, whatever the order of insertion
RECURSIVE SameContent(_, _)
SameContent(a, b) ==
    /\ a.t = b.t /\ a.s = b.s /\ a.n = b.n
    /\ Len(a.l) = Len(b.l)
    /\ \A i \in DOMAIN a.l : SameContent(a.l[i], b.l[i])
    /\ DictKeys(a) = DictKeys(b)
    /\ \A k \in DictKeys(a) : SameContent(DictAt(a, k), DictAt(b, k))

\* C13: when no key field applies (none configured, or the element lacks it),
\* two elements with the same content obtain the same key, whatever the order
\* in which their fields were inserted
C13_FallbackKeyIgnoresInsertionOrder ==
    (pc = "keyed" /\ ~KeyApplies(va) /\ ~KeyApplies(vb) /\ SameContent(va, vb)) =>
        eq.ka = eq.kb

C13_Witness ==
    /\ pc = "keyed"
    /\ vc = JStr("name")
    /\ ~KeyApplies(va) /\ ~KeyApplies(vb)
    /\ va # vb /\ SameContent(va, vb)
    /\ eq.ka = eq.kb

\* the positions of a side whose key occurred at an earlier position
RepeatedAt(list) ==
    SelectSeq([i \in DOMAIN list.l |-> i],
              LAMBDA i : \E j \in 1..(i - 1) : KeyAt(list, j) = KeyAt(list, i))
\* the warnings of a side of the attribute "rule", one per repeated occurrence
DuplicateWarnings(list, side) ==
    [n \in DOMAIN RepeatedAt(list) |->
        "Duplicate key '" \o KeyAt(list, RepeatedAt(list)[n]) \o "' in " \o side
            \o " state for rule"]

\* C14: a key repeated on one side does not make the differ fail; each side
\* gets one warning per repeated occurrence (elements minus distinct keys),
\* naming the side and the path, whatever the other side holds, and the
\* element compared for a key is the last one seen
C14_DuplicateKeyWarnings ==
    (pc = "differed" /\ ~change.is_primitive) =>
        /\ ~raised
        /\ CONFIG.warnings =
              DuplicateWarnings(before_list, "before") \o DuplicateWarnings(after_list, "after")
        /\ Len(DuplicateWarnings(before_list, "before")) =
              Len(before_list.l) - Cardinality(KeysOf(before_list))
        /\ Len(DuplicateWarnings(after_list, "after")) =
              Len(after_list.l) - Cardinality(KeysOf(after_list))
        /\ \A k \in Matched :
              /\ ModifiedFor(k) # {} <=> FieldDiffs(k) # {}
              /\ PyEq(LastWithKey(before_list, k), LastWithKey(after_list, k)) =>
                    change.order_only_count >= 1

C14_Witness ==
    /\ pc = "differed"
    /\ key_attr = JStr("name")
    /\ before_list = JList(<<Elem("a", 80), Elem("a", 443)>>)
    /\ after_list = JList(<<Elem("a", 80)>>)
    /\ CONFIG.warnings = <<"Duplicate key 'a' in before state for rule">>
    /\ Len(change.modified) = 1
    /\ change.order_only_count = 0

\* the resource changes gone through that yield a finding, in plan order
GovernedProcessed == SelectSeq(Processed, Governed)
LastProcessed == Processed[rc_index - 1]
LastFinding == result.resources[Len(result.resources)]
AfterResource == pc = "analyze" /\ rc_index > 1

\* C16: for a resource whose actions are exactly [create] or exactly [delete]
\* the Set Differ is not invoked, and the finding carries its lifecycle flag
\* only: set_changes and other_changes are empty whatever before and after hold
C16_CreateDeleteFlagOnly ==
    /\ (AfterResource /\ (GovernedCreate(LastProcessed) \/ GovernedDelete(LastProcessed))) =>
          /\ differ_calls = 0
          /\ LastFinding.address = LastProcessed.address
          /\ LastFinding.is_create = (LastProcessed.actions = <<"create">>)
          /\ LastFinding.is_delete = (LastProcessed.actions = <<"delete">>)
          /\ ~LastFinding.is_replace
    /\ Analyzing =>
          \A i \in DOMAIN result.resources :
             (result.resources[i].is_create \/ result.resources[i].is_delete) =>
                /\ result.resources[i].set_changes = <<>>
                /\ result.resources[i].other_changes = <<>>

C16_Witness ==
    /\ AfterResource /\ rc_index = 2
    /\ LastProcessed.actions = <<"create">>
    /\ LastProcessed.before = None
    /\ DictKeys(LastProcessed.after) = {"rule", "tags", "zone", "_id"}
    /\ differ_calls = 0
    /\ result.create_count = 1
    /\ LastFinding.is_create
    /\ LastFinding.set_changes = <<>> /\ LastFinding.other_changes = <<>>

\* C17: a resource change whose actions are exactly [no-op], or whose type is
\* outside the azurerm_ namespace, yields no finding: the turn of the loop
\* leaves the result (resource list and counts) and the warnings as they were
C17_UngovernedLeavesNoTrace ==
    [][(/\ pc = "analyze"
        /\ rc_index <= Len(plan_json.resource_changes)
        /\ ~Governed(plan_json.resource_changes[rc_index]))
       => (/\ result' = result
           /\ CONFIG' = CONFIG
           /\ differ_calls' = 0
           /\ pc' = "analyze")]_vars

C17_Witness ==
    /\ AfterResource /\ rc_index = 3
    /\ Processed[1].actions = <<"no-op">> /\ startswith_azurerm(Processed[1].type)
    /\ Processed[2].actions = <<"update">> /\ ~startswith_azurerm(Processed[2].type)
    /\ Truthy(Processed[1].before_sensitive) /\ Truthy(Processed[2].before_sensitive)
    /\ result = AnalysisResult
    /\ CONFIG.warnings = <<>>

\* C18: every entry of a finding's set_changes belongs to a schema-declared
\* attribute of the resource whose before and after values are not equal, and
\* carries at least one finding; no attribute has two entries
C18_KeptSetChangesCarryFindings ==
    Analyzing =>
        /\ Len(result.resources) = Len(GovernedProcessed)
        /\ \A i \in DOMAIN result.resources :
              LET rc == GovernedProcessed[i]
                  kept == result.resources[i].set_changes
              IN /\ \A j \in DOMAIN kept :
                       /\ kept[j].attribute_name \in ChangedSetAttrs(rc)
                       /\ HasFinding(kept[j])
                 /\ \A j, k \in DOMAIN kept :
                       kept[j].attribute_name = kept[k].attribute_name => j = k

C18_Witness ==
    /\ AfterResource /\ rc_index = 3
    /\ Processed[1].actions = <<"update">> /\ Processed[2].actions = <<"update">>
    /\ ChangedSetAttrs(Processed[1]) = {"rule"}
    /\ result.resources[1].set_changes = <<>>
    /\ ChangedSetAttrs(Processed[2]) = {"tags"}
    /\ Len(result.resources[2].set_changes) = 1
    /\ result.resources[2].set_changes[1].attribute_name = "tags"

\* C19 as stated: every name listed in a finding's other changes is an
\* attribute of the resource (a key of before or after, not one that occurs
\* in the sensitivity marks only) that the schema does not cover and whose
\* values differ; a schema-declared attribute is never listed
C19_OtherChangesOutsideSchema ==
    Analyzing =>
        /\ Len(result.resources) = Len(GovernedProcessed)
        /\ \A i \in DOMAIN result.resources :
              LET rc == GovernedProcessed[i]
                  other == result.resources[i].other_changes
              IN \A j \in DOMAIN other :
                    /\ other[j] \in DictKeys(OrEmptyDict(rc.before))
                                        \cup DictKeys(OrEmptyDict(rc.after))
                    /\ ~PyEq(DictGet(OrEmptyDict(rc.before), other[j]),
                             DictGet(OrEmptyDict(rc.after), other[j]))
                    /\ other[j] \notin DictKeys(SetAttrsOf(rc.type))

\* the second call of analyze_plan has returned
SecondReturned == pc \in {"analyzed", "exited"} /\ "status" \in DOMAIN eq
\* what is left of a warnings list after the prior contents p
Emitted(w, p) == SubSeq(w, Len(p) + 1, Len(w))
StartsWith(w, p) == Len(p) <= Len(w) /\ SubSeq(w, 1, Len(p)) = p

\* C15: the findings, the summary counts and the exit status of a plan are
\* the same whatever the warnings accumulator held before and whatever the
\* verbose / quiet settings; the warnings of the run are the prior contents
\* with the warnings of the run appended
C15_WarningsDoNotClassify ==
    SecondReturned =>
        /\ [result EXCEPT !.warnings = <<>>] = [eq.result EXCEPT !.warnings = <<>>]
        /\ pc = "exited" => exit_status = eq.status
        /\ \E p1 \in PriorWarnings, p2 \in PriorWarnings :
              /\ StartsWith(eq.result.warnings, p1)
              /\ StartsWith(result.warnings, p2)
              /\ Emitted(eq.result.warnings, p1) = Emitted(result.warnings, p2)

C15_Witness ==
    /\ SecondReturned /\ pc = "exited"
    /\ CONFIG.verbose /\ CONFIG.quiet
    /\ eq.result.warnings # result.warnings
    /\ Len(eq.result.warnings) = 1 /\ Len(result.warnings) = 2
    /\ result.order_only_count = 1 /\ result.actual_set_changes_count = 1
    /\ exit_status = EXIT_SET_CHANGES

\* cfg is (key field, children) as the claim gives it for the raw shape def
ParsedAs(def, cfg) ==
    /\ DOMAIN cfg = {"key_attr", "nested_attrs"}
    /\ cfg.nested_attrs.t = "dict"
    /\ CASE def.t = "str" -> cfg.key_attr = def /\ cfg.nested_attrs.d = <<>>
         [] def.t = "null" -> cfg.key_attr = None /\ cfg.nested_attrs.d = <<>>
         [] def.t = "dict" ->
               /\ cfg.key_attr = (IF HasKey(def, "_key") THEN DictAt(def, "_key") ELSE None)
               /\ DictKeys(cfg.nested_attrs) = DictKeys(def) \ {"_key"}
               /\ Len(cfg.nested_attrs.d) = Cardinality(DictKeys(def) \ {"_key"})
               /\ \A k \in DictKeys(cfg.nested_attrs) :
                     DictAt(cfg.nested_attrs, k) = DictAt(def, k)
         [] OTHER -> cfg.key_attr = None /\ cfg.nested_attrs.d = <<>>

\* C20: get_attr_config returns for every raw shape: a string gives (that
\* string, no children), null gives (no key, no children), an object gives
\* (its "_key" entry, its other entries as children), any other shape gives
\* (no key, no children)
C20_AttrConfigTotal ==
    pc = "parsed" => ParsedAs(va, eq.a) /\ ParsedAs(vb, eq.b)

C20_Witness ==
    /\ pc = "parsed"
    /\ va = JList(<<JStr("name")>>)
    /\ eq.a = [key_attr |-> None, nested_attrs |-> JDict(<<>>)]
    /\ vb = JDict(<<Item("_key", JStr("name")), Item("rules", None)>>)
    /\ eq.b = [key_attr |-> JStr("name"), nested_attrs |-> JDict(<<Item("rules", None)>>)]

\* the plan or the attributes file is malformed: missing or unreadable (the
\* plan), not JSON, or JSON that is no object
MalformedInput ==
    \/ ~argv.plan_ok
    \/ ~argv.attributes_ok /\ argv.attributes_fault # "FileNotFoundError"

\* C21: malformed input aborts the run with exit status 3 and no partial
\* output: nothing was written to standard output and no analysis result
\* was produced
C21_MalformedInputExitsThree ==
    (pc = "exited" /\ MalformedInput) =>
        /\ exit_status = EXIT_ERROR
        /\ stdout = <<>>
        /\ result = AnalysisResult

\* the AnalysisSummary of a result: the six counts and the warnings
SummaryOf(r) ==
    [order_only |-> r.order_only_count, actual |-> r.actual_set_changes_count,
     replace |-> r.replace_count, create |-> r.create_count,
     delete |-> r.delete_count, other |-> r.other_changes_count,
     warnings |-> r.warnings]

CalledAgain == pc = "analyzed" /\ "result" \in DOMAIN eq

\* C22: analyzing a plan after an earlier analyze_plan call of the same
\* process yields the summary (counts and warnings) that analyzing it first
\* yields
C22_SummaryHoldsNoState ==
    CalledAgain => SummaryOf(result) = SummaryOf(eq.result)

\* the six counts of a result
CountsOf(r) == [SummaryOf(r) EXCEPT !.warnings = <<>>]

\* the findings of outs, the analyses of single resource changes, in order
RECURSIVE FindingsOf(_)
FindingsOf(outs) ==
    IF outs = <<>> THEN <<>>
    ELSE (IF Head(outs).found THEN <<Head(outs).res>> ELSE <<>>) \o FindingsOf(Tail(outs))

\* r holds the findings of outs, and its counts are the sums of the counts
\* in singles, the results of the plans of one resource change each
SumOfParts(r, outs, singles) ==
    /\ r.resources = FindingsOf(outs)
    /\ CountsOf(r) =
          [order_only |-> SumSeq([i \in DOMAIN singles |-> singles[i].order_only_count]),
           actual |-> SumSeq([i \in DOMAIN singles |-> singles[i].actual_set_changes_count]),
           replace |-> SumSeq([i \in DOMAIN singles |-> singles[i].replace_count]),
           create |-> SumSeq([i \in DOMAIN singles |-> singles[i].create_count]),
           delete |-> SumSeq([i \in DOMAIN singles |-> singles[i].delete_count]),
           other |-> SumSeq([i \in DOMAIN singles |-> singles[i].other_changes_count]),
           warnings |-> <<>>]

SingleResults(outs) ==
    [i \in DOMAIN outs |->
        IF outs[i].found THEN CountResource(AnalysisResult, outs[i].res) ELSE AnalysisResult]

AloneOutcomes(rcs) == [i \in DOMAIN rcs |-> analyze_resource_change(rcs[i])]

ReorderedReturned == pc = "analyzed" /\ "plan" \in DOMAIN eq

\* C23: a reordering of resource_changes yields the same six counts and the
\* same exit status; each finding is the one its resource change yields
\* alone, whatever else the plan holds; the counts are the sums of the
\* counts of the one-resource plans, hence of any parts the plan is cut in
C23_AggregationCommutes ==
    ReorderedReturned =>
        /\ CountsOf(result) = CountsOf(eq.result)
        /\ determine_exit_code(result) = eq.status
        /\ \E outs \in {AloneOutcomes(plan_json.resource_changes)} :
              \E singles \in {SingleResults(outs)} : SumOfParts(result, outs, singles)

C23_Witness ==
    /\ ReorderedReturned
    /\ plan_json.resource_changes # eq.plan
    /\ result.replace_count = 1 /\ result.create_count = 1
    /\ result.resources[1].is_create /\ eq.result.resources[1].is_replace

RawAnalyzed == pc = "analyzed raw"

\* C24 as claimed: a null side is compared as the empty list and every
\* non-list value as the list of that one value
C24_NonListBecomesSingleton ==
    RawAnalyzed =>
        /\ va.t = "null" => eq.raw = eq.before_empty
        /\ va.t \notin {"null", "list"} => eq.raw = eq.before_single
        /\ vb.t = "null" => eq.raw = eq.after_empty
        /\ vb.t \notin {"null", "list"} => eq.raw = eq.after_single

\* C24: a side that is null or any other falsy value ("", 0, false, an
\* empty object, an empty list) is compared as the empty list, and every
\* other non-list value as the list of that one value
C24_TruthyNonListBecomesSingleton ==
    RawAnalyzed =>
        /\ ~Truthy(va) => eq.raw = eq.before_empty
        /\ (Truthy(va) /\ va.t # "list") => eq.raw = eq.before_single
        /\ ~Truthy(vb) => eq.raw = eq.after_empty
        /\ (Truthy(vb) /\ vb.t # "list") => eq.raw = eq.after_single

C24_Witness ==
    /\ RawAnalyzed
    /\ va = Elem("a", 80) /\ vb = JInt(0)
    /\ eq.raw.change.removed = <<"a">>
    /\ eq.raw.change.primitive_added = <<>>
    /\ ~eq.raw.change.is_primitive

\* the elements of one side of an attribute
ItemsOf(v) == IF v.t = "list" THEN v.l ELSE IF Truthy(v) THEN <<v>> ELSE <<>>
\* some element of the side is neither a composite nor null
AnyPrimitive(v) == \E i \in DOMAIN ItemsOf(v) : ItemsOf(v)[i].t \notin {"dict", "null"}
\* out lists exactly the elements of from that have no equal in other
IsDifference(out, from, other) ==
    /\ \A i \in DOMAIN out : PyIn(out[i], from) /\ ~PyIn(out[i], other)
    /\ \A i \in DOMAIN from : PyIn(from[i], other) \/ PyIn(from[i], out)

\* C25: when an element on either side is not a composite, the differ returns
\* a result with is_primitive set whose added / removed are the set
\* differences of the two sides, also when the collection holds composite
\* elements as well
C25_MixedCollectionIsPrimitive ==
    (RawAnalyzed /\ (AnyPrimitive(va) \/ AnyPrimitive(vb))) =>
        /\ ~eq.raw.raised
        /\ eq.raw.change.is_primitive
        /\ IsDifference(eq.raw.change.primitive_removed, ItemsOf(va), ItemsOf(vb))
        /\ IsDifference(eq.raw.change.primitive_added, ItemsOf(vb), ItemsOf(va))

\* C26: in a primitive collection no two elements that the normalizer holds
\* equivalent (an empty string and null, strings differing in case under
\* case-folding) are reported as one removed and one added
C26_EquivalentPrimitivesNotReported ==
    (pc = "differed" /\ ~raised /\ change.is_primitive) =>
        \A i \in DOMAIN change.primitive_removed, j \in DOMAIN change.primitive_added :
            ~values_equivalent(change.primitive_removed[i], change.primitive_added[j])

\* C27: two values of different types are never equivalent, except an
\* integral float and its integer form; the empty values, which the
\* normalizer maps to null by a rule of its own, are set aside
C27_TypeMismatchIsDifference ==
    (pc = "compared" /\ va.t # vb.t /\ ~IsEmptyValue(va) /\ ~IsEmptyValue(vb) /\ eq.ab) =>
        /\ {va.t, vb.t} = {"int", "float"}
        /\ Tenths(va) = Tenths(vb)

\* x and y are the same up to the normalizer: both empty (null, "", [], an
\* absent field), or the same, or strings differing in case under case-folding
Alike(x, y) ==
    \/ IsEmptyValue(x) /\ IsEmptyValue(y)
    \/ x = y
    \/ CONFIG.ignore_case /\ x.t = "str" /\ y.t = "str" /\ Lower(x.s) = Lower(y.s)

\* the pair kept for key k has only fields that are alike on both sides
AlikePair(k) ==
    \E be \in {LastWithKey(before_list, k)}, ae \in {LastWithKey(after_list, k)} :
        \A f \in DictKeys(be) \cup DictKeys(ae) : Alike(DictGet(be, f), DictGet(ae, f))

\* C28: a matched pair whose fields differ at most by normalizer-equivalent
\* values, with no differing nested field, is counted once in
\* order_only_count and has no modified entry, also when the two elements
\* are not exactly equal
C28_EquivalentPairIsOrderOnly ==
    Differed =>
        /\ \A k \in Matched : AlikePair(k) => ModifiedFor(k) = {}
        /\ change.order_only_count = Cardinality({k \in Matched : AlikePair(k)})

C28_Witness ==
    /\ Differed
    /\ CONFIG.ignore_case
    /\ before_list = JList(<<Noted("a", JStr("x")), JDict(<<Item("name", JStr("a"))>>)>>)
    /\ after_list = JList(<<Noted("A", JStr("X")), Noted("a", JList(<<>>))>>)
    /\ change.order_only_count = 1
    /\ change.modified = <<>> /\ change.added = <<>> /\ change.removed = <<>>

\* below c, the path of every nested result is the path of its parent
\* extended by its attribute name
RECURSIVE WellPathed(_)
WellPathed(c) ==
    \A i \in DOMAIN c.nested_changes :
        /\ c.nested_changes[i].path = c.path \o "." \o c.nested_changes[i].attribute_name
        /\ WellPathed(c.nested_changes[i])

\* the results one and two levels below the top
RulesResults == {change.nested_changes[i] : i \in DOMAIN change.nested_changes}
PortsResults == UNION {{r.nested_changes[j] : j \in DOMAIN r.nested_changes} : r \in RulesResults}

\* C29: a finding two levels deep ("ports" inside "rules" inside "rule") is
\* held by the result of its immediate parent only: the top result holds
\* results of "rules" alone, each of those holds the "ports" results and no
\* modified entry, a top pair whose plain fields agree has no modified
\* entry, and every path is the parent's path extended by the attribute name
C29_DeepFindingStaysWithParent ==
    Differed =>
        /\ WellPathed(change)
        /\ \A r \in RulesResults :
              /\ r.attribute_name = "rules" /\ ~r.is_primitive
              /\ r.modified = <<>>
        /\ \A p \in PortsResults :
              /\ p.attribute_name = "ports" /\ p.is_primitive
              /\ p.nested_changes = <<>>
        /\ \A k \in Matched : FieldDiffs(k) = {} => ModifiedFor(k) = {}

C29_Witness ==
    /\ Differed
    /\ before_list = JList(<<ElemRules("a", 80, JList(<<InnerXY>>))>>)
    /\ after_list = JList(<<ElemRules("a", 80, JList(<<InnerXZ>>))>>)
    /\ change.modified = <<>> /\ change.order_only_count = 0
    /\ Len(change.nested_changes) = 1
    /\ change.nested_changes[1].path = "rule.rules"
    /\ Len(change.nested_changes[1].nested_changes) = 1
    /\ change.nested_changes[1].nested_changes[1].path = "rule.rules.ports"
    /\ change.nested_changes[1].nested_changes[1].primitive_added = <<JStr("z")>>
    /\ change.nested_changes[1].nested_changes[1].primitive_removed = <<JStr("y")>>

HashKeyed == Differed /\ ~Truthy(key_attr)
\* the elements of list that do not occur in other
OnlyIn(list, other) == Range(list.l) \ Range(other.l)

\* C30: with no key field configured every matched pair is content-equal:
\* the result holds no modified entry and no nested finding, the elements
\* on both sides are counted order-only, and an element whose content
\* changed is one removed and one added entry, each shown as "(element)"
C30_HashKeyedPairsAreEqual ==
    HashKeyed =>
        /\ \A k \in Matched : PyEq(LastWithKey(before_list, k), LastWithKey(after_list, k))
        /\ change.modified = <<>> /\ change.nested_changes = <<>>
        /\ \A i \in DOMAIN change.removed : change.removed[i] = "(element)"
        /\ \A i \in DOMAIN change.added : change.added[i] = "(element)"
        /\ Len(change.removed) = Cardinality(OnlyIn(before_list, after_list))
        /\ Len(change.added) = Cardinality(OnlyIn(after_list, before_list))
        /\ change.order_only_count =
              Cardinality(Range(before_list.l) \cap Range(after_list.l))

C30_Witness ==
    /\ HashKeyed
    /\ before_list = JList(<<Elem("b", 81), Elem("a", 80)>>)
    /\ after_list = JList(<<Elem("a", 443), Elem("b", 81)>>)
    /\ change.removed = <<"(element)">> /\ change.added = <<"(element)">>
    /\ change.order_only_count = 1
    /\ change.modified = <<>>

====
